---- MODULE Spec2Model ----
(***************************************************************************)
(* Model of the parking-lot scheduler: ResourcePool (core/resource_pool.rs) *)
(* over InMemoryQueue (infra/queue/memory.rs) and InMemoryMailbox           *)
(* (infra/mailbox/memory.rs), and of WorkerPool with its result storage     *)
(* (core/worker_pool/native.rs).                                            *)
(*                                                                          *)
(* Every submit call, every spawned execution and every spawned wake_next   *)
(* pass is a thread of control; one action is one access to shared state    *)
(* (an atomic operation on active_units, or one critical section of the     *)
(* queue, mailbox or wake-state mutex).                                     *)
(***************************************************************************)
EXTENDS Integers, Sequences, FiniteSets, TLC

----------------------------------------------------------------------------
(* Bounds of the model *)

MaxUnits == 2
MaxQueueDepth == 2
NumTasks == 4
MaxNow == 2
MaxCallers == 2
MaxWorkers == 2
MaxCreated == 2
MaxMessages == 3
MaxWorkerCount == 2
MaxSubmits == 2
MaxCalls == 2
MaxTaskIds == 3
MaxLockThreads == 3
MaxEvents == 2
MaxRecords == 4
MaxWasmTasks == 2
MaxWasmCalls == 2

\* the modulus the u64 counters wrap at, scaled down from 2^64
CounterModulus == 16

\* the modulus u32 arithmetic wraps at, scaled down from 2^32
UnitModulus == 8

Tasks == 1..NumTasks
None == 0
UnitsRange == 1..MaxUnits
DepthRange == 1..MaxQueueDepth
Times == 0..MaxNow

----------------------------------------------------------------------------
(* Task metadata *)

Priorities == {"Low", "Normal", "High", "Critical"}

\* PriorityTask::priority_value
priority_value(p) ==
    CASE p = "Low" -> 0
      [] p = "Normal" -> 1
      [] p = "High" -> 2
      [] p = "Critical" -> 3

MailboxKeys == {"k1", "k2"}
NoKey == "none"
NoDeadline == -1
NoSince == -1
NoFetch == [called |-> FALSE, key |-> "k1", since |-> NoSince, limit |-> 0, result |-> <<>>]
NoPrune == [called |-> FALSE, now |-> 0, removed |-> 0, before |-> {}]
NoMeta == [priority |-> "Low", units |-> 0, created_at_ms |-> 0,
           deadline_ms |-> NoDeadline, mailbox |-> NoKey]

VARIABLES
    workload,           \* which of the Workloads the callers submit
    limits,             \* PoolLimits: max_units, max_queue_depth
    active_units,       \* ResourcePool.active_units (AtomicU32)
    queue,              \* InMemoryQueue.tasks: the ids of the tasks in the heap
    mailbox,            \* InMemoryMailbox.messages: key -> sequence of messages
    capacity_available, \* WakeState.capacity_available
    meta,               \* TaskMetadata of the tasks that exist (NoMeta once dropped)
    nextId,             \* the next task a caller will hand to submit
    pc,                 \* position of the thread that carries task t
    cur,                \* the local `current` of a CAS loop
    held,               \* the task a wake_next pass has dequeued and holds
    execCount,          \* how many times the executor was invoked on task t
    nReserved,          \* how many times cost.units of t were added
    nReleased,          \* how many times cost.units of t were subtracted
    pruned,             \* tasks removed from the queue by prune_expired
    sawRelease,         \* pairs <<a, b>> of waiting tasks, a ranked above b, that were
                        \* in the queue together while capacity was released
    qlog,               \* the tasks returned by the dequeue calls since the last enqueue
    qres,               \* what the last queue operation returned
    qprune,             \* the last prune_expired call since the last enqueue
    audit,              \* the audit sink: the set of <<task id, action>> recorded
    now_ms,             \* the now_ms argument of the submit of a task with a deadline
    shutdown,           \* WakeState.shutdown
    fetched,            \* the last InMemoryMailbox::fetch call and what it returned
    worker,             \* the thread running sync_wake_worker_loop: its position,
                        \* the task it holds and its local `current`
    config,             \* WorkerPoolConfig: worker_count, max_queue_depth, max_units
    task_id_counter,    \* WorkerPool.task_id_counter (AtomicU64)
    entries,            \* ResultStorage.entries: key string -> the Arc of its entry
    arcs,               \* the ResultEntry behind each Arc, in order of creation
    task_channel,       \* the bounded channel of WorkerTask (task_tx / task_rx)
    workers,            \* the worker threads: position, task held, result computed
    submits,            \* the WorkerPool::submit calls: position, payload, key, outcome
    calls,              \* the retrieve / retrieve_async calls: position, key, Arc held,
                        \* outcome, and the spawn_blocking thread of retrieve_async
    counters,           \* PoolCounters: submitted, queued, active, completed tasks
    used_units,         \* WorkerPool.active_units (AtomicU32), reported as used_units
    pool_shutdown,      \* WorkerPool.shutdown (AtomicBool)
    task_tx,            \* WorkerPool.task_tx: TRUE while it holds Some(sender)
    closer,             \* the thread that calls WorkerPool::shutdown, or drops the pool
    lock_owner,         \* which thread holds each parking_lot Mutex of the ResourcePool
    lock_pc,            \* position of each thread in the ResourcePool operation it runs
    sink,               \* InMemoryAuditSink: max_events, events, and every event recorded
    yaque,              \* YaqueQueue: max_depth, tasks, the lines of its file, what
                        \* its last operation returned, and whether one has failed
    wasm                \* the WorkerPool of worker_pool/wasm.rs: flag, counters,
                        \* semaphore permits, result entries, spawned tasks, calls

vars == <<workload, limits, active_units, queue, mailbox, capacity_available, meta,
          nextId, pc, cur, held, execCount, nReserved, nReleased, pruned,
          sawRelease, qlog, qres, qprune, audit, now_ms, shutdown, worker, fetched,
          config, task_id_counter, entries, arcs, task_channel, workers, submits, calls,
          counters, used_units, pool_shutdown, task_tx, closer,
          lock_owner, lock_pc, sink, yaque, wasm>>

\* the components modelled on their own: the mutexes of the ResourcePool, the
\* audit sink, the file-backed queue and the async WorkerPool
extState == <<lock_owner, lock_pc, sink, yaque, wasm>>

\* the state of the WorkerPool
wpState == <<config, task_id_counter, entries, arcs, task_channel, workers, submits, calls,
             counters, used_units, pool_shutdown, task_tx, closer>>

\* what the pool never changes, and what only direct calls of the queue change
fixed == <<workload, limits, qlog, qres, qprune, worker, fetched, wpState, extState>>

----------------------------------------------------------------------------
(* InMemoryQueue *)

\* Ord with the created_at_ms comparison not reversed (later task first)
GreaterLifo(a, b) ==
    LET pa == priority_value(meta[a].priority)
        pb == priority_value(meta[b].priority)
    IN  IF pa = pb
        THEN meta[a].created_at_ms > meta[b].created_at_ms
        ELSE pa > pb

\* impl Ord for PriorityTask: TRUE when a is Greater than b
Greater(a, b) ==
    LET pa == priority_value(meta[a].priority)
        pb == priority_value(meta[b].priority)
    IN  IF pa = pb
        THEN meta[b].created_at_ms > meta[a].created_at_ms
        ELSE pa > pb

\* BinaryHeap::pop: a greatest element; which one of several equal
\* elements is not specified
HeapTop(q) == {t \in q : \A u \in q : ~Greater(u, t)}

\* a pop that returns the element and leaves it in the heap
DequeuedKept(q, h) == q

\* BinaryHeap::pop removes the element it returns
Dequeued(q, h) == q \ {h}

\* InMemoryQueue::len
QueueLen(q) == Cardinality(q)

\* InMemoryQueue::max_depth (the pool is built with a queue of the same depth)
QueueMaxDepth == limits.max_queue_depth

\* enqueue without its own depth test
EnqueueFullUnchecked(q) == FALSE

\* InMemoryQueue::enqueue: Err(QueueFull) when len() >= max_depth()
EnqueueFull(q) == QueueLen(q) >= QueueMaxDepth
Enqueue(q, t) == IF EnqueueFull(q) THEN q ELSE q \cup {t}

\* InMemoryQueue::prune_expired: keeps a task iff it has no deadline or d > now
Survives(t, now) ==
    meta[t].deadline_ms = NoDeadline \/ meta[t].deadline_ms > now
PruneExpired(q, now) == {t \in q : Survives(t, now)}

----------------------------------------------------------------------------
(* Inputs *)

\* The metadata a caller may give task t.  Callers stamp created_at_ms at
\* creation and ids are handed to submit in creation order.
\* Each workload of the pool varies one field of the metadata over its range;
\* the workloads "queue" and "prune" are for direct calls of the queue: in
\* "queue" the rank fields (priority, created_at_ms) take every value, in
\* "prune" tasks have a deadline or none and prune_expired is called.  In the
\* workload "oversized" a task costs one unit or more than the pool has, in
\* "completion" every task costs the whole capacity and has no deadline.
Workloads == {"costs", "priorities", "deadlines"}
PriorityChoices ==
    CASE workload \in {"priorities", "prune", "yaque"} -> {"Normal", "High"}
      [] workload = "queue" -> Priorities
      [] OTHER -> {"Normal"}
UnitsChoices ==
    CASE workload = "costs" -> UnitsRange
      [] workload \in {"deadlines", "completion"} -> {MaxUnits}
      [] workload = "oversized" -> {1, MaxUnits + 1}
      [] workload \in {"overflow", "overflow_checked"} -> {1, UnitModulus - 1}
      [] OTHER -> {1}
CreatedChoices(t) == IF workload = "queue" THEN 1..MaxCreated ELSE {t}
DeadlineChoices == IF workload \in {"deadlines", "prune", "yaque"} THEN {NoDeadline, 1} ELSE {NoDeadline}
\* Tasks 1 and 4 share a key, task 3 has another, task 2 has none
MailboxChoice(t) ==
    CASE t % 4 = 1 -> "k1"
      [] t % 4 = 3 -> "k2"
      [] t % 4 = 0 -> "k1"
      [] OTHER -> NoKey
MetaChoices(t) ==
    {[priority |-> p, units |-> u, created_at_ms |-> c,
      deadline_ms |-> d, mailbox |-> MailboxChoice(t)] :
        p \in PriorityChoices, u \in UnitsChoices, c \in CreatedChoices(t),
        d \in DeadlineChoices}

\* PoolLimits of the pools under test: every queue depth for the workload that
\* varies the costs, the deepest queue for the others
PoolConfigs ==
    [max_units : {MaxUnits},
     max_queue_depth : IF workload = "costs" THEN DepthRange ELSE {MaxQueueDepth}]

\* TaskExecutor::execute: the result is determined by the task
Result(t) == t

\* with_audit: the pools of the workloads "deadlines" and "completion" have
\* an audit sink attached
AuditAttached == workload \in {"deadlines", "completion"}
\* record_audit and the inline sink.record calls: a no-op without a sink
Record(a, id, action) == IF AuditAttached THEN a \cup {<<id, action>>} ELSE a
\* the callers of the workload "priorities" call shutdown at some point
ShutdownCalled == workload = "priorities"

----------------------------------------------------------------------------
(* WorkerPool: identifiers, keys and the values of idle threads *)

WorkerIds == 1..MaxWorkerCount
Submits == 1..MaxSubmits
Calls == 1..MaxCalls
Payloads == {"a", "b"}

\* WorkerExecutor::execute of the test executor: a result made from the payload
Execute(payload) == <<"Result", payload>>

\* generate_mailbox_key
generate_mailbox_key(task_id) ==
    [tenant |-> "worker_pool", session_id |-> <<ToString(task_id)>>]

\* mailbox_key_to_string with the session id left out
mailbox_key_to_tenant(key) == key.tenant

\* mailbox_key_to_string
mailbox_key_to_string(key) ==
    key.tenant \o ":" \o (IF key.session_id = <<>> THEN "unknown" ELSE key.session_id[1])

NoMailboxKey == [tenant |-> "", session_id |-> <<>>]
NoArc == 0
NoWorkerTask == [payload |-> "a", priority |-> "Normal", units |-> 0,
                 mailbox_key |-> NoMailboxKey]
NoReturn == [tag |-> "none", value |-> <<>>]
Ok(r) == [tag |-> "Ok", value |-> r]
Err(e) == [tag |-> e, value |-> <<>>]

IdleSubmit == [pc |-> "idle", payload |-> "a", priority |-> "Normal", units |-> 0,
               key |-> NoMailboxKey,
               ret |-> "none"]
IdleCall == [pc |-> "idle", kind |-> "none", key |-> NoMailboxKey, arc |-> NoArc,
             timed_out |-> FALSE, ret |-> NoReturn, blk |-> "none", bgot |-> <<>>]
IdleWorker == [pc |-> "recv", task |-> NoWorkerTask, result |-> <<>>]
IdleCloser == [pc |-> "idle", idx |-> 1, detached |-> {}]

\* ResultEntry as create_slot makes it
PendingEntry == [result |-> <<>>, state |-> "Pending"]

----------------------------------------------------------------------------

\* the mutexes of ResourcePool::new, all free
Mutexes == {"queue", "mailbox", "wake_state", "audit"}
LockThreads == 1..MaxLockThreads
NoThread == 0

\* InMemoryAuditSink::new(max_events): every bound in the workload "audit"
SinkBounds == IF workload = "audit" THEN 0..MaxEvents ELSE {MaxEvents}

\* the keys of the async WorkerPool: those of its task ids and one more
WasmTaskIds == 0..(MaxWasmTasks - 1)
WasmCalls == 1..MaxWasmCalls
WasmKey(id) == mailbox_key_to_string(generate_mailbox_key(id))
WasmKeys == {WasmKey(id) : id \in 0..MaxWasmTasks}
\* ResultEntry.notify_tx: None, or Some(tx) of a oneshot channel whose receiver
\* was dropped, or Some(tx) whose receiver retrieve call c >= 1 holds
NoSender == -1
DroppedReceiver == 0
NoWasmEntry == [state |-> "none", result |-> <<>>, notify_tx |-> NoSender]
\* WorkerPoolConfig of the async pools under test
WasmConfigs ==
    IF workload = "wasm"
    THEN [worker_count : 1..MaxWorkerCount, max_queue_depth : 1..MaxQueueDepth]
    ELSE {[worker_count |-> MaxWorkerCount, max_queue_depth |-> MaxQueueDepth]}
IdleWasmTask == [pc |-> "none", payload |-> "a"]
IdleWasmCall == [pc |-> "idle", key |-> "", had_slot |-> FALSE, notified |-> FALSE,
                 ret |-> NoReturn]

\* InMemoryAuditSink::new, YaqueQueue::new on an empty directory, and
\* WorkerPool::new of worker_pool/wasm.rs
InitExtras ==
    /\ lock_owner = [m \in Mutexes |-> NoThread]
    /\ lock_pc = [t \in LockThreads |-> "idle"]
    /\ sink \in [max_events : SinkBounds, events : {<<>>}, recorded : {<<>>}]
    /\ yaque = [max_depth |-> limits.max_queue_depth, tasks |-> <<>>, disk |-> <<>>,
                op |-> "none", res |-> "none", got |-> None, failed |-> FALSE]
    /\ \E wc \in WasmConfigs :
       wasm = [config |-> wc, shutdown |-> FALSE, closed |-> FALSE, task_id_counter |-> 0,
               permits |-> wc.worker_count,
               counters |-> [submitted |-> 0, queued |-> 0, active |-> 0, completed |-> 0],
               active_units |-> 0,
               entries |-> [k \in WasmKeys |-> NoWasmEntry],
               tasks |-> [i \in WasmTaskIds |-> IdleWasmTask],
               calls |-> [c \in WasmCalls |-> IdleWasmCall]]

\* ResourcePool::new, InMemoryQueue::new, InMemoryMailbox::new
InitPool ==
    /\ InitExtras
    /\ active_units = 0
    /\ queue = {}
    /\ mailbox = [k \in MailboxKeys |-> <<>>]
    /\ capacity_available = FALSE
    /\ meta = [t \in Tasks |-> NoMeta]
    /\ nextId = 1
    /\ pc = [t \in Tasks |-> "new"]
    /\ cur = [t \in Tasks |-> 0]
    /\ held = [t \in Tasks |-> None]
    /\ execCount = [t \in Tasks |-> 0]
    /\ nReserved = [t \in Tasks |-> 0]
    /\ nReleased = [t \in Tasks |-> 0]
    /\ pruned = {}
    /\ sawRelease = {}
    /\ qlog = <<>>
    /\ qres = "none"
    /\ qprune = NoPrune
    /\ audit = {}
    /\ now_ms = [t \in Tasks |-> 0]
    /\ shutdown = FALSE
    /\ fetched = NoFetch
    /\ worker = [pc |-> "wait", task |-> None, current |-> 0]

\* ResultStorage::new and WorkerPool::new: no slot, an empty channel, idle workers
InitResults ==
    /\ task_id_counter = 0
    /\ entries = <<>>
    /\ arcs = <<>>
    /\ task_channel = <<>>
    /\ workers = [w \in WorkerIds |-> IdleWorker]
    /\ submits = [s \in Submits |-> IdleSubmit]
    /\ calls = [c \in Calls |-> IdleCall]
    /\ counters = [submitted |-> 0, queued |-> 0, active |-> 0, completed |-> 0]
    /\ used_units = 0
    /\ pool_shutdown = FALSE
    /\ task_tx = TRUE
    /\ closer = IdleCloser

InitState ==
    /\ InitPool
    /\ InitResults
    /\ config = [worker_count |-> MaxWorkerCount, max_queue_depth |-> MaxQueueDepth,
                 max_units |-> MaxUnits]

Init ==
    /\ workload \in Workloads
    /\ limits \in PoolConfigs
    /\ InitState

----------------------------------------------------------------------------
(* ResourcePool::submit *)

Cost(t) == meta[t].units

\* The submit calls in progress (each on a caller's thread)
InSubmit == {t \in Tasks : pc[t] \in {"s_cas", "s_depth", "s_enq"}}

\* The spawned futures a runtime worker thread is running: completion
\* handlers past the executor and wake_next passes past their first dequeue.
\* None of them yields before it ends.
OnWorker == {t \in Tasks : pc[t] \in {"f_notify", "f_deliver", "f_audit", "f_spawn",
                                       "w_deq", "w_check", "w_cas", "w_reenq"}}
CallerFree == Cardinality(InSubmit) < MaxCallers
WorkerFree == Cardinality(OnWorker) < MaxWorkers

\* u32 addition and subtraction as a build without overflow checks computes
\* them, and as the atomic fetch_add / fetch_sub compute them in every build
WrappingAdd(a, b) == (a + b) % UnitModulus
WrappingSub(a, b) == (a - b) % UnitModulus

\* `current + cost` in unbounded arithmetic does not fit in a u32
Overflows(current, cost) == current + cost >= UnitModulus

\* the pool of the workload "overflow_checked" is built with overflow checks
\* (the dev profile): there `current + cost` panics where it would wrap
OverflowChecks == workload = "overflow_checked"
Panics(current, cost) == OverflowChecks /\ Overflows(current, cost)

\* ResourcePool::can_start_lockfree, and the same test inside the CAS loops
Fits(current, cost) == WrappingAdd(current, cost) <= limits.max_units

\* The spawned future of task h starts: executor.execute(payload, meta)
Spawned(h) ==
    /\ execCount' = [execCount EXCEPT ![h] = @ + 1]
    /\ sawRelease' = {p \in sawRelease : p[1] # h /\ p[2] # h}

\* CasStep with a plain store in place of the compare-and-swap
CasStepStore(t, h, failed, reserved) ==
    IF ~Fits(cur[t], Cost(h))
    THEN /\ pc' = [pc EXCEPT ![t] = failed]
         /\ cur' = [cur EXCEPT ![t] = 0]
         /\ UNCHANGED <<active_units, nReserved, execCount, sawRelease>>
    ELSE /\ active_units' = WrappingAdd(cur[t], Cost(h))
         /\ nReserved' = [nReserved EXCEPT ![h] = @ + 1]
         /\ pc' = reserved
         /\ cur' = [cur EXCEPT ![t] = 0]
         /\ Spawned(h)

\* CasStep that leaves the loop as failed after a successful exchange
CasStepLeak(t, h, failed, reserved) ==
    IF ~Fits(cur[t], Cost(h))
    THEN /\ pc' = [pc EXCEPT ![t] = failed]
         /\ cur' = [cur EXCEPT ![t] = 0]
         /\ UNCHANGED <<active_units, nReserved, execCount, sawRelease>>
    ELSE IF active_units = cur[t]
    THEN /\ active_units' = WrappingAdd(cur[t], Cost(h))
         /\ nReserved' = [nReserved EXCEPT ![h] = @ + 1]
         /\ pc' = [pc EXCEPT ![t] = failed]
         /\ cur' = [cur EXCEPT ![t] = 0]
         /\ UNCHANGED <<execCount, sawRelease>>
    ELSE /\ cur' = [cur EXCEPT ![t] = active_units]
         /\ UNCHANGED <<active_units, pc, nReserved, execCount, sawRelease>>

\* One iteration of a CAS loop run by thread t to reserve the cost of task h:
\* the test on `current`, then compare_exchange_weak(current, current + cost).
\* A spurious failure of the weak CAS re-reads the same value and changes
\* nothing.  Returns through pc: failed, or reserved.
CasStep(t, h, failed, reserved) ==
    IF ~Fits(cur[t], Cost(h))
    THEN /\ pc' = [pc EXCEPT ![t] = failed]
         /\ cur' = [cur EXCEPT ![t] = 0]
         /\ UNCHANGED <<active_units, nReserved, execCount, sawRelease>>
    ELSE IF active_units = cur[t]
    THEN /\ active_units' = WrappingAdd(cur[t], Cost(h))
         /\ nReserved' = [nReserved EXCEPT ![h] = @ + 1]
         /\ pc' = reserved
         /\ cur' = [cur EXCEPT ![t] = 0]
         /\ Spawned(h)
    ELSE /\ cur' = [cur EXCEPT ![t] = active_units]
         /\ UNCHANGED <<active_units, pc, nReserved, execCount, sawRelease>>

\* submit rejecting a deadline equal to now as well
SubmitBeginInclusive(t, m, now) ==
    /\ t = nextId
    /\ pc[t] = "new"
    /\ CallerFree
    /\ nextId' = nextId + 1
    /\ meta' = [meta EXCEPT ![t] = m]
    /\ now_ms' = [now_ms EXCEPT ![t] = IF m.deadline_ms # NoDeadline THEN now ELSE 0]
    /\ IF m.deadline_ms # NoDeadline /\ now >= m.deadline_ms
       THEN /\ pc' = [pc EXCEPT ![t] = "DeadlineExpired"]
            /\ UNCHANGED cur
       ELSE /\ pc' = [pc EXCEPT ![t] =
                        IF Fits(active_units, m.units) THEN "s_cas" ELSE "s_depth"]
            /\ cur' = [cur EXCEPT ![t] =
                        IF Fits(active_units, m.units) THEN active_units ELSE 0]
    /\ UNCHANGED <<fixed, shutdown, audit, sawRelease, active_units, queue, mailbox,
                   capacity_available,
                   held, execCount, nReserved, nReleased, pruned>>

\* submit up to the first CAS: the deadline test, the load of
\* can_start_lockfree and the initial load of try_reserve_capacity (two
\* adjacent loads of active_units, read here as one).  meta and now_ms keep
\* the arguments of the call.
SubmitBegin(t, m, now) ==
    /\ t = nextId
    /\ pc[t] = "new"
    /\ CallerFree
    /\ ~Panics(active_units, m.units)
    /\ nextId' = nextId + 1
    /\ meta' = [meta EXCEPT ![t] = m]
    /\ now_ms' = [now_ms EXCEPT ![t] = IF m.deadline_ms # NoDeadline THEN now ELSE 0]
    /\ IF m.deadline_ms # NoDeadline /\ now > m.deadline_ms
       THEN /\ pc' = [pc EXCEPT ![t] = "DeadlineExpired"]
            /\ UNCHANGED cur
       ELSE /\ pc' = [pc EXCEPT ![t] =
                        IF Fits(active_units, m.units) THEN "s_cas" ELSE "s_depth"]
            /\ cur' = [cur EXCEPT ![t] =
                        IF Fits(active_units, m.units) THEN active_units ELSE 0]
    /\ UNCHANGED <<fixed, shutdown, audit, sawRelease, active_units, queue, mailbox,
                   capacity_available,
                   held, execCount, nReserved, nReleased, pruned>>

\* try_reserve_capacity: the CAS loop; on success submit records the start,
\* spawns the execution (spawn_task) and returns Running
TryReserveCas(t) ==
    /\ pc[t] = "s_cas"
    /\ ~Panics(cur[t], Cost(t))
    /\ CasStep(t, t, "s_depth", [pc EXCEPT ![t] = "exec"])
    /\ audit' = IF pc'[t] = "exec" THEN Record(audit, t, "start") ELSE audit
    /\ UNCHANGED <<fixed, shutdown, queue, mailbox, capacity_available, meta, now_ms, nextId,
                   held, nReleased, pruned>>

\* submit without the depth check of its own
SubmitDepthCheckSkipped(t) ==
    /\ pc[t] = "s_depth"
    /\ pc' = [pc EXCEPT ![t] = "s_enq"]
    /\ UNCHANGED <<fixed, shutdown, audit, sawRelease, active_units, queue, mailbox,
                   capacity_available,
                   meta, now_ms, nextId, cur, held, execCount, nReserved, nReleased, pruned>>

\* submit: the first critical section of the queue mutex, the depth check
SubmitDepthCheck(t) ==
    /\ pc[t] = "s_depth"
    /\ IF QueueLen(queue) >= limits.max_queue_depth
       THEN /\ pc' = [pc EXCEPT ![t] = "QueueFull"]
            /\ meta' = [meta EXCEPT ![t] = NoMeta]
            /\ now_ms' = [now_ms EXCEPT ![t] = 0]
            /\ audit' = audit
       ELSE /\ pc' = [pc EXCEPT ![t] = "s_enq"]
            /\ audit' = Record(audit, t, "enqueue")
            /\ UNCHANGED <<meta, now_ms>>
    /\ UNCHANGED <<fixed, shutdown, sawRelease, active_units, queue, mailbox, capacity_available,
                   nextId, cur, held, execCount, nReserved, nReleased, pruned>>

\* submit: the second critical section, queue.enqueue(task)?
SubmitEnqueue(t) ==
    /\ pc[t] = "s_enq"
    /\ IF EnqueueFull(queue)
       THEN /\ pc' = [pc EXCEPT ![t] = "QueueFull"]
            /\ meta' = [meta EXCEPT ![t] = NoMeta]
            /\ now_ms' = [now_ms EXCEPT ![t] = 0]
       ELSE /\ pc' = [pc EXCEPT ![t] = "parked"]
            /\ UNCHANGED <<meta, now_ms>>
    /\ queue' = Enqueue(queue, t)
    /\ UNCHANGED <<fixed, shutdown, audit, sawRelease, active_units, mailbox, capacity_available,
                   nextId, cur, held, execCount, nReserved, nReleased, pruned>>

----------------------------------------------------------------------------
(* The spawned execution and ResourcePool::on_task_finished_static *)

\* The tasks dequeued by a wake pass that has not yet started them or put
\* them back, and the tasks parked in the queue
HeldTasks == {held[u] : u \in Tasks} \ {None}
Parked == {t \in Tasks : pc[t] = "parked" /\ t \in queue}

\* executor.execute(payload, meta) has returned and a worker polls the future
\* again: active_units.fetch_sub(task_cost)
Release(t) ==
    /\ pc[t] = "exec"
    /\ WorkerFree
    /\ active_units' = WrappingSub(active_units, Cost(t))
    /\ nReleased' = [nReleased EXCEPT ![t] = @ + 1]
    /\ pc' = [pc EXCEPT ![t] = "f_notify"]
    /\ sawRelease' = sawRelease \cup {p \in Parked \X Parked : Greater(p[1], p[2])}
    /\ UNCHANGED <<fixed, shutdown, audit, queue, mailbox, capacity_available, meta, now_ms, nextId,
                   cur, held, execCount, nReserved, pruned>>

\* deliver pushing the message twice
MailboxDeliverTwice(mb, key, status, payload) ==
    [mb EXCEPT ![key] = Append(Append(@, [status |-> status, payload |-> payload]),
                               [status |-> status, payload |-> payload])]

\* InMemoryMailbox::deliver
MailboxDeliver(mb, key, status, payload) ==
    [mb EXCEPT ![key] = Append(@, [status |-> status, payload |-> payload])]

\* The rest of on_task_finished_static: capacity_available = true under the
\* wake mutex and notify_one (no thread waits on the condvar in async wake
\* mode), mailbox delivery if a key is present, then the spawn of
\* try_wake_next_static (async_wake_enabled is true).  The future ends here and
\* drops what it captured of the task.
Notify(t) ==
    /\ pc[t] = "f_notify"
    /\ capacity_available' = TRUE
    /\ mailbox' = IF meta[t].mailbox # NoKey
                  THEN MailboxDeliver(mailbox, meta[t].mailbox, "Completed", Result(t))
                  ELSE mailbox
    /\ pc' = [pc EXCEPT ![t] = "w_start"]
    /\ meta' = [meta EXCEPT ![t] = NoMeta]
    /\ now_ms' = [now_ms EXCEPT ![t] = 0]
    /\ audit' = Record(audit, t, "complete")
    /\ UNCHANGED <<fixed, shutdown, sawRelease, active_units, queue, nextId,
                   cur, held, execCount, nReserved, nReleased, pruned>>

------------------------------------------------------------------------------
(* ResourcePool::try_wake_next_static: the pass spawned by the completion of t *)

\* A worker starts the spawned pass (w_start) or the pass loops (w_deq):
\* queue_guard.dequeue(); None ends the pass
WakeDequeue(t) ==
    /\ \/ pc[t] = "w_start" /\ WorkerFree
       \/ pc[t] = "w_deq"
    /\ IF queue = {}
       THEN /\ pc' = [pc EXCEPT ![t] = "done"]
            /\ UNCHANGED <<queue, held>>
       ELSE \E h \in HeapTop(queue) :
            /\ queue' = Dequeued(queue, h)
            /\ held' = [held EXCEPT ![t] = h]
            /\ pc' = [pc EXCEPT ![t] = "w_check"]
    /\ UNCHANGED <<fixed, shutdown, audit, sawRelease, active_units, mailbox,
                   capacity_available, meta, now_ms, nextId,
                   cur, execCount, nReserved, nReleased, pruned>>

\* can_start = current + cost <= max_units, then the load that starts the CAS
\* loop (two adjacent loads of active_units, read here as one)
WakeCheck(t) ==
    /\ pc[t] = "w_check"
    /\ ~Panics(active_units, Cost(held[t]))
    /\ pc' = [pc EXCEPT ![t] =
                IF Fits(active_units, Cost(held[t])) THEN "w_cas" ELSE "w_reenq"]
    /\ cur' = [cur EXCEPT ![t] =
                IF Fits(active_units, Cost(held[t])) THEN active_units ELSE 0]
    /\ UNCHANGED <<fixed, shutdown, audit, sawRelease, active_units, queue, mailbox,
                   capacity_available,
                   meta, now_ms, nextId, held, execCount, nReserved, nReleased, pruned>>

\* the CAS loop of the pass; on success the pass spawns the execution of the
\* held task and loops
WakeCas(t) ==
    /\ pc[t] = "w_cas"
    /\ ~Panics(cur[t], Cost(held[t]))
    /\ CasStep(t, held[t], "w_reenq", [pc EXCEPT ![t] = "w_deq", ![held[t]] = "exec"])
    /\ held' = [held EXCEPT ![t] = IF pc'[t] = "w_deq" THEN None ELSE @]
    /\ audit' = IF pc'[t] = "w_deq" THEN Record(audit, held[t], "wake") ELSE audit
    /\ UNCHANGED <<fixed, shutdown, queue, mailbox, capacity_available, meta, now_ms, nextId,
                   nReleased, pruned>>

\* re-enqueue the held task and stop; an Err of enqueue is only logged
WakeReenqueue(t) ==
    /\ pc[t] = "w_reenq"
    /\ queue' = Enqueue(queue, held[t])
    /\ held' = [held EXCEPT ![t] = None]
    /\ pc' = [pc EXCEPT ![t] = "done"]
    /\ UNCHANGED <<fixed, shutdown, audit, sawRelease, active_units, mailbox,
                   capacity_available, meta, now_ms, nextId,
                   cur, execCount, nReserved, nReleased, pruned>>

------------------------------------------------------------------------------
(* ResourcePool::prune_expired *)

Prune(now) ==
    /\ PruneExpired(queue, now) # queue
    /\ queue' = PruneExpired(queue, now)
    /\ pruned' = pruned \cup (queue \ PruneExpired(queue, now))
    /\ sawRelease' = {p \in sawRelease : {p[1], p[2]} \subseteq PruneExpired(queue, now) \cup HeldTasks}
    /\ audit' = Record(audit, None, "expire")
    /\ UNCHANGED <<fixed, shutdown, active_units, mailbox, capacity_available, meta, now_ms, nextId,
                   pc, cur, held, execCount, nReserved, nReleased>>

\* ResourcePool::shutdown: sets the flag under the wake mutex and notifies
\* all waiters of the condvar (none in async wake mode)
Shutdown ==
    /\ ShutdownCalled
    /\ ~shutdown
    /\ shutdown' = TRUE
    /\ UNCHANGED <<fixed, audit, active_units, queue, mailbox, capacity_available,
                   meta, now_ms, nextId, pc, cur, held, execCount, nReserved,
                   nReleased, pruned, sawRelease>>

----------------------------------------------------------------------------

Next ==
    \/ \E t \in Tasks, now \in Times : \E m \in MetaChoices(t) : SubmitBegin(t, m, now)
    \/ \E t \in Tasks : TryReserveCas(t)
    \/ \E t \in Tasks : SubmitDepthCheck(t)
    \/ \E t \in Tasks : SubmitEnqueue(t)
    \/ \E t \in Tasks : Release(t)
    \/ \E t \in Tasks : Notify(t)
    \/ \E t \in Tasks : WakeDequeue(t)
    \/ \E t \in Tasks : WakeCheck(t)
    \/ \E t \in Tasks : WakeCas(t)
    \/ \E t \in Tasks : WakeReenqueue(t)
    \/ \E now \in Times : Prune(now)
    \/ Shutdown

Spec == Init /\ [][Next]_vars

----------------------------------------------------------------------------
(* The pool under the workload "oversized", with the scheduling the runtime
   gives: a submit in progress goes on, an executor returns, a spawned
   completion handler or wake pass runs.  Callers submit when they like. *)

InitOversized ==
    /\ workload = "oversized"
    /\ limits = [max_units |-> MaxUnits, max_queue_depth |-> MaxQueueDepth]
    /\ InitState

NextOversized ==
    \/ \E t \in Tasks, now \in Times : \E m \in MetaChoices(t) : SubmitBegin(t, m, now)
    \/ \E t \in Tasks : TryReserveCas(t)
    \/ \E t \in Tasks : SubmitDepthCheck(t)
    \/ \E t \in Tasks : SubmitEnqueue(t)
    \/ \E t \in Tasks : Release(t)
    \/ \E t \in Tasks : Notify(t)
    \/ \E t \in Tasks : WakeDequeue(t)
    \/ \E t \in Tasks : WakeCheck(t)
    \/ \E t \in Tasks : WakeCas(t)
    \/ \E t \in Tasks : WakeReenqueue(t)

Progress ==
    \A t \in Tasks :
        /\ WF_vars(TryReserveCas(t)) /\ WF_vars(SubmitDepthCheck(t))
        /\ WF_vars(SubmitEnqueue(t)) /\ WF_vars(Release(t)) /\ WF_vars(Notify(t))
        /\ WF_vars(WakeDequeue(t)) /\ WF_vars(WakeCheck(t))
        /\ WF_vars(WakeCas(t)) /\ WF_vars(WakeReenqueue(t))

SpecOversized == InitOversized /\ [][NextOversized]_vars /\ Progress

----------------------------------------------------------------------------
(* The pool whose callers call shutdown at some point, with the same
   scheduling *)

InitShutdown ==
    /\ workload = "priorities"
    /\ limits \in PoolConfigs
    /\ InitState

NextShutdown ==
    \/ \E t \in Tasks, now \in Times : \E m \in MetaChoices(t) : SubmitBegin(t, m, now)
    \/ \E t \in Tasks : TryReserveCas(t)
    \/ \E t \in Tasks : SubmitDepthCheck(t)
    \/ \E t \in Tasks : SubmitEnqueue(t)
    \/ \E t \in Tasks : Release(t)
    \/ \E t \in Tasks : Notify(t)
    \/ \E t \in Tasks : WakeDequeue(t)
    \/ \E t \in Tasks : WakeCheck(t)
    \/ \E t \in Tasks : WakeCas(t)
    \/ \E t \in Tasks : WakeReenqueue(t)
    \/ Shutdown

SpecShutdown == InitShutdown /\ [][NextShutdown]_vars /\ Progress

----------------------------------------------------------------------------
(* on_task_finished_static statement by statement, for a pool with an audit
   sink whose tasks cost the whole capacity *)

\* the signalling step with the flag left as it is
SignalCapacitySkipped(t) ==
    /\ pc[t] = "f_notify"
    /\ pc' = [pc EXCEPT ![t] = "f_deliver"]
    /\ UNCHANGED <<fixed, shutdown, sawRelease, active_units, queue, nextId, mailbox,
                   capacity_available, audit, meta, now_ms,
                   cur, held, execCount, nReserved, nReleased, pruned>>

\* after the fetch_sub: state.capacity_available = true under the wake mutex,
\* then wake_condvar.notify_one() (no thread waits in async wake mode)
SignalCapacity(t) ==
    /\ pc[t] = "f_notify"
    /\ capacity_available' = TRUE
    /\ pc' = [pc EXCEPT ![t] = "f_deliver"]
    /\ UNCHANGED <<fixed, shutdown, sawRelease, active_units, queue, nextId, mailbox,
                   audit, meta, now_ms,
                   cur, held, execCount, nReserved, nReleased, pruned>>

\* mailbox_guard.deliver(key, Completed, Some(result)) if a key is present
DeliverResult(t) ==
    /\ pc[t] = "f_deliver"
    /\ mailbox' = IF meta[t].mailbox # NoKey
                  THEN MailboxDeliver(mailbox, meta[t].mailbox, "Completed", Result(t))
                  ELSE mailbox
    /\ pc' = [pc EXCEPT ![t] = "f_audit"]
    /\ UNCHANGED <<fixed, shutdown, sawRelease, active_units, queue, nextId,
                   capacity_available, audit, meta, now_ms,
                   cur, held, execCount, nReserved, nReleased, pruned>>

\* sink.record(... "complete" ...)
RecordComplete(t) ==
    /\ pc[t] = "f_audit"
    /\ audit' = Record(audit, t, "complete")
    /\ pc' = [pc EXCEPT ![t] = "f_spawn"]
    /\ UNCHANGED <<fixed, shutdown, sawRelease, active_units, queue, nextId, mailbox,
                   capacity_available, meta, now_ms,
                   cur, held, execCount, nReserved, nReleased, pruned>>

\* spawner.spawn(Self::try_wake_next_static(...)); the future ends here and
\* drops what it captured of the task
SpawnWake(t) ==
    /\ pc[t] = "f_spawn"
    /\ pc' = [pc EXCEPT ![t] = "w_start"]
    /\ meta' = [meta EXCEPT ![t] = NoMeta]
    /\ now_ms' = [now_ms EXCEPT ![t] = 0]
    /\ UNCHANGED <<fixed, shutdown, sawRelease, active_units, queue, nextId, mailbox,
                   capacity_available, audit,
                   cur, held, execCount, nReserved, nReleased, pruned>>

InitCompletion ==
    /\ workload = "completion"
    /\ limits \in PoolConfigs
    /\ InitState

NextCompletion ==
    \/ \E t \in Tasks, now \in Times : \E m \in MetaChoices(t) : SubmitBegin(t, m, now)
    \/ \E t \in Tasks : TryReserveCas(t)
    \/ \E t \in Tasks : SubmitDepthCheck(t)
    \/ \E t \in Tasks : SubmitEnqueue(t)
    \/ \E t \in Tasks : Release(t)
    \/ \E t \in Tasks : SignalCapacity(t)
    \/ \E t \in Tasks : DeliverResult(t)
    \/ \E t \in Tasks : RecordComplete(t)
    \/ \E t \in Tasks : SpawnWake(t)
    \/ \E t \in Tasks : WakeDequeue(t)
    \/ \E t \in Tasks : WakeCheck(t)
    \/ \E t \in Tasks : WakeCas(t)
    \/ \E t \in Tasks : WakeReenqueue(t)

SpecCompletion == InitCompletion /\ [][NextCompletion]_vars

----------------------------------------------------------------------------
(* The pool with tasks whose cost.units is near u32::MAX, in a build that
   wraps on overflow ("overflow") and in one that checks ("overflow_checked") *)

\* submit in a build with overflow checks: `current + cost` of
\* can_start_lockfree panics; the call unwinds and drops the task
SubmitPanic(t, m, now) ==
    /\ t = nextId
    /\ pc[t] = "new"
    /\ CallerFree
    /\ ~(m.deadline_ms # NoDeadline /\ now > m.deadline_ms)
    /\ Panics(active_units, m.units)
    /\ nextId' = nextId + 1
    /\ pc' = [pc EXCEPT ![t] = "panicked"]
    /\ UNCHANGED <<fixed, shutdown, audit, sawRelease, active_units, queue, mailbox,
                   capacity_available, meta, now_ms,
                   cur, held, execCount, nReserved, nReleased, pruned>>

\* a wake pass or a CAS loop in a build with overflow checks: `current + cost`
\* panics; the future unwinds and drops the task it holds
ReservePanic(t) ==
    /\ pc[t] \in {"s_cas", "w_check", "w_cas"}
    /\ Panics(IF pc[t] = "w_check" THEN active_units ELSE cur[t],
              Cost(IF pc[t] = "s_cas" THEN t ELSE held[t]))
    /\ pc' = [pc EXCEPT ![t] = "panicked"]
    /\ held' = [held EXCEPT ![t] = None]
    /\ cur' = [cur EXCEPT ![t] = 0]
    /\ meta' = [meta EXCEPT ![IF pc[t] = "s_cas" THEN t ELSE held[t]] = NoMeta]
    /\ UNCHANGED <<fixed, shutdown, audit, sawRelease, active_units, queue, mailbox,
                   capacity_available, now_ms, nextId,
                   execCount, nReserved, nReleased, pruned>>

InitOverflow ==
    /\ workload \in {"overflow", "overflow_checked"}
    /\ limits \in PoolConfigs
    /\ InitState

NextOverflow ==
    \/ \E t \in Tasks, now \in Times : \E m \in MetaChoices(t) : SubmitBegin(t, m, now)
    \/ \E t \in Tasks, now \in Times : \E m \in MetaChoices(t) : SubmitPanic(t, m, now)
    \/ \E t \in Tasks : TryReserveCas(t)
    \/ \E t \in Tasks : SubmitDepthCheck(t)
    \/ \E t \in Tasks : SubmitEnqueue(t)
    \/ \E t \in Tasks : Release(t)
    \/ \E t \in Tasks : Notify(t)
    \/ \E t \in Tasks : WakeDequeue(t)
    \/ \E t \in Tasks : WakeCheck(t)
    \/ \E t \in Tasks : ReservePanic(t)
    \/ \E t \in Tasks : WakeCas(t)
    \/ \E t \in Tasks : WakeReenqueue(t)

SpecOverflow == InitOverflow /\ [][NextOverflow]_vars

----------------------------------------------------------------------------
(* The pool in sync wake mode: async_wake_enabled is false, so a completion
   spawns no wake pass, and one thread runs sync_wake_worker_loop *)

syncKeep == <<workload, limits, qlog, qres, qprune, fetched, wpState, extState, mailbox, nextId, cur, held,
              execCount, nReleased, pruned, sawRelease, audit, now_ms, shutdown>>

\* on_task_finished_static after the release, with async_wake_enabled false
NotifySync(t) ==
    /\ pc[t] = "f_notify"
    /\ capacity_available' = TRUE
    /\ mailbox' = IF meta[t].mailbox # NoKey
                  THEN MailboxDeliver(mailbox, meta[t].mailbox, "Completed", Result(t))
                  ELSE mailbox
    /\ pc' = [pc EXCEPT ![t] = "done"]
    /\ meta' = [meta EXCEPT ![t] = NoMeta]
    /\ now_ms' = [now_ms EXCEPT ![t] = 0]
    /\ audit' = Record(audit, t, "complete")
    /\ UNCHANGED <<fixed, shutdown, sawRelease, active_units, queue, nextId,
                   cur, held, execCount, nReserved, nReleased, pruned>>

\* the condvar wait: leaves when capacity_available or shutdown is set; on
\* shutdown the worker ends, else it resets the flag
SyncWait ==
    /\ worker.pc = "wait"
    /\ capacity_available \/ shutdown
    /\ IF shutdown
       THEN /\ worker' = [worker EXCEPT !.pc = "exit"]
            /\ UNCHANGED capacity_available
       ELSE /\ worker' = [worker EXCEPT !.pc = "deq"]
            /\ capacity_available' = FALSE
    /\ UNCHANGED <<syncKeep, queue, active_units, nReserved, pc, meta>>

\* queue.dequeue() under the queue mutex; None ends the inner loop
SyncDequeue ==
    /\ worker.pc = "deq"
    /\ IF queue = {}
       THEN /\ worker' = [worker EXCEPT !.pc = "wait"]
            /\ UNCHANGED queue
       ELSE \E h \in HeapTop(queue) :
            /\ queue' = Dequeued(queue, h)
            /\ worker' = [worker EXCEPT !.pc = "check", !.task = h]
    /\ UNCHANGED <<syncKeep, capacity_available, active_units, nReserved, pc, meta>>

\* the capacity test and the load that starts the CAS loop (two adjacent
\* loads of active_units, read here as one)
SyncCheck ==
    /\ worker.pc = "check"
    /\ worker' = IF Fits(active_units, Cost(worker.task))
                 THEN [worker EXCEPT !.pc = "cas", !.current = active_units]
                 ELSE [worker EXCEPT !.pc = "reenq"]
    /\ UNCHANGED <<syncKeep, capacity_available, queue, active_units, nReserved, pc, meta>>

\* the CAS loop; after a successful reservation the worker only logs "ready
\* to start task": the task is dropped at the end of the iteration, no
\* executor is called and nothing is spawned
SyncCas ==
    /\ worker.pc = "cas"
    /\ IF ~Fits(worker.current, Cost(worker.task))
       THEN /\ worker' = [worker EXCEPT !.pc = "reenq", !.current = 0]
            /\ UNCHANGED <<active_units, nReserved, pc, meta>>
       ELSE IF active_units = worker.current
       THEN /\ active_units' = WrappingAdd(worker.current, Cost(worker.task))
            /\ nReserved' = [nReserved EXCEPT ![worker.task] = @ + 1]
            /\ pc' = [pc EXCEPT ![worker.task] = "prepared"]
            /\ meta' = [meta EXCEPT ![worker.task] = NoMeta]
            /\ worker' = [pc |-> "deq", task |-> None, current |-> 0]
       ELSE /\ worker' = [worker EXCEPT !.current = active_units]
            /\ UNCHANGED <<active_units, nReserved, pc, meta>>
    /\ UNCHANGED <<syncKeep, capacity_available, queue>>

\* re-enqueue and leave the inner loop; an Err of enqueue is only logged
SyncReenqueue ==
    /\ worker.pc = "reenq"
    /\ queue' = Enqueue(queue, worker.task)
    /\ worker' = [pc |-> "wait", task |-> None, current |-> 0]
    /\ UNCHANGED <<syncKeep, capacity_available, active_units, nReserved, pc, meta>>

InitSync ==
    /\ workload = "priorities"
    /\ limits = [max_units |-> MaxUnits, max_queue_depth |-> MaxQueueDepth]
    /\ InitState

NextSync ==
    \/ \E t \in Tasks, now \in Times : \E m \in MetaChoices(t) : SubmitBegin(t, m, now)
    \/ \E t \in Tasks : TryReserveCas(t)
    \/ \E t \in Tasks : SubmitDepthCheck(t)
    \/ \E t \in Tasks : SubmitEnqueue(t)
    \/ \E t \in Tasks : Release(t)
    \/ \E t \in Tasks : NotifySync(t)
    \/ SyncWait
    \/ SyncDequeue
    \/ SyncCheck
    \/ SyncCas
    \/ SyncReenqueue
    \/ Shutdown

SpecSync == InitSync /\ [][NextSync]_vars

----------------------------------------------------------------------------
(* Direct calls of InMemoryQueue: enqueue and dequeue on a queue of its own *)

poolState == <<active_units, mailbox, capacity_available, pc, cur, held,
               execCount, nReserved, nReleased, pruned, sawRelease,
               audit, now_ms, shutdown, worker, fetched, wpState, extState>>

\* queue.enqueue(task) with a fresh task: Err(QueueFull) or Ok
QEnqueue(t, m) ==
    /\ t = nextId
    /\ nextId' = nextId + 1
    /\ qres' = IF EnqueueFull(queue) THEN "QueueFull" ELSE "Ok"
    /\ queue' = Enqueue(queue, t)
    /\ meta' = [u \in Tasks |->
                  IF u \in queue THEN meta[u]
                  ELSE IF u = t /\ ~EnqueueFull(queue) THEN m
                  ELSE NoMeta]
    /\ qlog' = <<>>
    /\ qprune' = NoPrune
    /\ UNCHANGED <<workload, limits, poolState>>

\* queue.dequeue(): Ok(None) on an empty queue, else the popped task
QDequeue ==
    /\ IF queue = {}
       THEN /\ qres' = "None"
            /\ UNCHANGED <<queue, qlog>>
       ELSE \E h \in HeapTop(queue) :
            /\ queue' = Dequeued(queue, h)
            /\ qlog' = Append(qlog, h)
            /\ qres' = "Some"
    /\ UNCHANGED <<workload, limits, poolState, meta, nextId, qprune>>

\* queue.prune_expired(now_ms): Ok(before - after)
QPrune(now) ==
    /\ workload = "prune"
    /\ queue' = PruneExpired(queue, now)
    /\ qres' = "Pruned"
    /\ qprune' = [called |-> TRUE, now |-> now,
                  removed |-> QueueLen(queue) - QueueLen(PruneExpired(queue, now)),
                  before |-> queue]
    /\ UNCHANGED <<workload, limits, poolState, meta, nextId, qlog>>

InitQueue ==
    /\ workload \in {"queue", "prune"}
    /\ limits \in [max_units : {MaxUnits}, max_queue_depth : 1..NumTasks]
    /\ InitState

NextQueue ==
    \/ \E t \in Tasks : \E m \in MetaChoices(t) : QEnqueue(t, m)
    \/ QDequeue
    \/ \E now \in Times : QPrune(now)

SpecQueue == InitQueue /\ [][NextQueue]_vars

----------------------------------------------------------------------------
(* Direct calls of InMemoryMailbox: deliver and fetch on a mailbox of its own *)

Min(a, b) == IF a < b THEN a ELSE b

\* fetch with the limit applied before the since filter
FetchTakeFirst(mb, key, since, limit) ==
    SelectSeq(SubSeq(mb[key], 1, Min(limit, Len(mb[key]))),
              LAMBDA m : since = NoSince \/ m.created_at_ms >= since)

\* InMemoryMailbox::fetch: filter by since_ms, take(limit); a key without
\* messages gives the empty list
Fetch(mb, key, since, limit) ==
    LET kept == SelectSeq(mb[key], LAMBDA m : since = NoSince \/ m.created_at_ms >= since)
    IN  SubSeq(kept, 1, Min(limit, Len(kept)))

\* InMemoryMailbox::deliver with the clock reading it stamps the message with
MailboxDeliverAt(mb, key, status, payload, stamp) ==
    [mb EXCEPT ![key] = Append(@, [status |-> status, payload |-> payload,
                                   created_at_ms |-> stamp])]

Delivered3 == Len(mailbox["k1"]) + Len(mailbox["k2"])

\* mailbox.deliver(key, status, Some(payload)); the payloads are numbered
MDeliver(key, status, stamp) ==
    /\ Delivered3 < MaxMessages
    /\ mailbox' = MailboxDeliverAt(mailbox, key, status, Delivered3 + 1, stamp)
    /\ fetched' = NoFetch
    /\ UNCHANGED <<workload, limits, qlog, qres, qprune, worker, wpState, extState,
                   active_units, queue,
                   capacity_available, meta, nextId, pc, cur, held, execCount,
                   nReserved, nReleased, pruned, sawRelease, audit, now_ms, shutdown>>

\* mailbox.fetch(key, since_ms, limit)
MFetch(key, since, limit) ==
    /\ fetched' = [called |-> TRUE, key |-> key, since |-> since, limit |-> limit,
                   result |-> Fetch(mailbox, key, since, limit)]
    /\ UNCHANGED <<workload, limits, qlog, qres, qprune, worker, wpState, extState,
                   active_units, queue,
                   capacity_available, meta, nextId, pc, cur, held, execCount,
                   nReserved, nReleased, pruned, sawRelease, audit, now_ms, shutdown,
                   mailbox>>

InitMailbox ==
    /\ workload = "mailbox"
    /\ limits = [max_units |-> MaxUnits, max_queue_depth |-> MaxQueueDepth]
    /\ InitState

NextMailbox ==
    \/ \E key \in MailboxKeys, status \in {"Completed", "Queued"}, stamp \in Times :
            MDeliver(key, status, stamp)
    \/ \E key \in MailboxKeys, since \in Times \cup {NoSince}, limit \in 0..MaxMessages :
            MFetch(key, since, limit)

SpecMailbox == InitMailbox /\ [][NextMailbox]_vars

----------------------------------------------------------------------------
(* WorkerPool (core/worker_pool/native.rs): submit, the worker threads, the
   result storage, retrieve and retrieve_async.  One action is one critical
   section of the entries map, of one entry's mutex or of the task channel. *)

\* entry.result.take() that leaves the result in the entry
TakeClone(entry) == entry

\* the entry after entry.result.take()
Take(entry) == [entry EXCEPT !.result = <<>>]

\* Option::ok_or(PoolError::ResultNotFound) on what take() returned
OkOrNotFound(opt) == IF opt = <<>> THEN Err("ResultNotFound") ELSE Ok(opt)

\* ResultStorage::create_slot: insert a new Arc under the key string; the
\* new Arc is the next element of arcs
create_slot(key) ==
    /\ arcs' = Append(arcs, PendingEntry)
    /\ entries' = [k \in DOMAIN entries \cup {mailbox_key_to_string(key)} |->
                    IF k = mailbox_key_to_string(key) THEN Len(arcs) + 1 ELSE entries[k]]

\* a removal that leaves the map as it is
remove_skipped(key) == UNCHANGED <<entries, arcs>>

\* ResultStorage::remove: take the Arc out of the map and take its result
remove(key) ==
    LET ks == mailbox_key_to_string(key) IN
    IF ks \in DOMAIN entries
    THEN /\ entries' = [k \in DOMAIN entries \ {ks} |-> entries[k]]
         /\ arcs' = [arcs EXCEPT ![entries[ks]] = Take(@)]
    ELSE UNCHANGED <<entries, arcs>>

\* submit calls and retrieve calls are numbered in the order they begin
SubmitTurn(s) ==
    submits[s].pc = "idle" /\ (IF s = 1 THEN TRUE ELSE submits[s - 1].pc # "idle")
CallTurn(c) ==
    calls[c].pc = "idle" /\ (IF c = 1 THEN TRUE ELSE calls[c - 1].pc # "idle")

\* the keys that submit has returned to a caller
ReturnedKeys == {submits[s].key : s \in {x \in Submits : submits[x].ret = "Ok"}}

\* what no operation of the WorkerPool touches
wpFrame == <<workload, limits, active_units, queue, mailbox, capacity_available, meta,
             nextId, pc, cur, held, execCount, nReserved, nReleased, pruned,
             sawRelease, qlog, qres, qprune, audit, now_ms, shutdown, worker, fetched,
             config, extState>>

\* what retrieve and retrieve_async never touch besides
wpOther == <<wpFrame, counters, used_units, pool_shutdown, task_tx, closer>>

\* the payloads and the cost.units that the callers of a workload submit;
\* payloads are opaque to the pool, so the first one submitted is "a"
PayloadChoices(s) ==
    IF workload \in {"lifecycle", "backlog"} \/ s = 1 THEN {"a"} ELSE Payloads
CostChoices == IF workload = "lifecycle" THEN {1, MaxUnits} ELSE {1}
\* meta.priority of the tasks submitted: two ranks in the workload "backlog"
TaskPriorityChoices == IF workload = "backlog" THEN {"Low", "High"} ELSE {"Normal"}

\* the pool is in use: it was not dropped, so calls can be made on it
PoolAlive == closer.pc # "dropped"

\* the receiving side of the channel is held by the worker threads that run
ReceiversAlive == \E w \in WorkerIds : w <= config.worker_count /\ workers[w].pc # "exited"

\* AtomicU64::fetch_sub(1): wraps around below 0
FetchSub(n) == (n - 1) % CounterModulus

\* AtomicU64::fetch_add(1)
FetchAdd(n) == (n + 1) % CounterModulus

\* WorkerPool::submit entered without the test of the shutdown flag
SubmitCreateUnchecked(s, payload, units) ==
    /\ SubmitTurn(s)
    /\ PoolAlive
    /\ task_id_counter' = task_id_counter + 1
    /\ create_slot(generate_mailbox_key(task_id_counter))
    /\ \E priority \in TaskPriorityChoices :
        submits' = [submits EXCEPT ![s] = [pc |-> "s_send", payload |-> payload,
                        priority |-> priority, units |-> units,
                        key |-> generate_mailbox_key(task_id_counter), ret |-> "none"]]
    /\ UNCHANGED <<wpOther, task_channel, workers, calls>>

\* WorkerPool::submit up to create_slot: with the shutdown flag set return
\* PoolShutdown; else take a task id, make the key, create the slot
SubmitCreate(s, payload, units) ==
    /\ SubmitTurn(s)
    /\ PoolAlive
    /\ IF pool_shutdown
       THEN /\ \E priority \in TaskPriorityChoices :
                submits' = [submits EXCEPT ![s] = [pc |-> "returned", payload |-> payload,
                                priority |-> priority, units |-> units,
                                key |-> NoMailboxKey, ret |-> "PoolShutdown"]]
            /\ UNCHANGED <<task_id_counter, entries, arcs>>
       ELSE /\ task_id_counter' = task_id_counter + 1
            /\ create_slot(generate_mailbox_key(task_id_counter))
            /\ \E priority \in TaskPriorityChoices :
                submits' = [submits EXCEPT ![s] = [pc |-> "s_send", payload |-> payload,
                                priority |-> priority, units |-> units,
                                key |-> generate_mailbox_key(task_id_counter),
                                ret |-> "none"]]
    /\ UNCHANGED <<wpOther, task_channel, workers, calls>>

\* try_send on a channel taken to have room always
SubmitSendUnbounded(s) ==
    /\ submits[s].pc = "s_send"
    /\ task_channel' = Append(task_channel,
            [payload |-> submits[s].payload, priority |-> submits[s].priority,
             units |-> submits[s].units,
             mailbox_key |-> submits[s].key])
    /\ submits' = [submits EXCEPT ![s].pc = "s_count"]
    /\ UNCHANGED <<entries, arcs>>
    /\ UNCHANGED <<wpOther, task_id_counter, workers, calls>>

\* WorkerPool::submit from the task_tx lock: no sender, a full channel or a
\* channel without receivers removes the slot and fails; Ok goes on to count
SubmitSend(s) ==
    /\ submits[s].pc = "s_send"
    /\ IF ~task_tx \/ ~ReceiversAlive
       THEN /\ remove(submits[s].key)
            /\ submits' = [submits EXCEPT ![s].pc = "returned", ![s].ret = "PoolShutdown"]
            /\ UNCHANGED task_channel
       ELSE IF Len(task_channel) < config.max_queue_depth
       THEN /\ task_channel' = Append(task_channel,
                    [payload |-> submits[s].payload, priority |-> submits[s].priority,
             units |-> submits[s].units,
                     mailbox_key |-> submits[s].key])
            /\ submits' = [submits EXCEPT ![s].pc = "s_count"]
            /\ UNCHANGED <<entries, arcs>>
       ELSE /\ remove(submits[s].key)
            /\ submits' = [submits EXCEPT ![s].pc = "returned", ![s].ret = "QueueFull"]
            /\ UNCHANGED task_channel
    /\ UNCHANGED <<wpOther, task_id_counter, workers, calls>>

\* WorkerPool::submit after try_send returned Ok: submitted_tasks and
\* queued_tasks are incremented and the key is returned
SubmitCount(s) ==
    /\ submits[s].pc = "s_count"
    /\ counters' = [counters EXCEPT !.submitted = FetchAdd(@), !.queued = FetchAdd(@)]
    /\ submits' = [submits EXCEPT ![s].pc = "returned", ![s].ret = "Ok"]
    /\ UNCHANGED <<wpFrame, used_units, pool_shutdown, task_tx, closer,
                   task_id_counter, entries, arcs, task_channel, workers, calls>>

\* spawn_worker loop: task_rx.recv() returns the oldest task, or Err once the
\* channel is empty and its sender was dropped, and then the worker exits
WorkerRecv(w) ==
    /\ w <= config.worker_count
    /\ workers[w].pc = "recv"
    /\ IF task_channel # <<>>
       THEN /\ workers' = [workers EXCEPT ![w] = [pc |-> "check",
                                task |-> Head(task_channel), result |-> <<>>]]
            /\ task_channel' = Tail(task_channel)
       ELSE /\ ~task_tx
            /\ workers' = [workers EXCEPT ![w].pc = "exited"]
            /\ UNCHANGED task_channel
    /\ UNCHANGED <<wpOther, task_id_counter, entries, arcs, submits, calls>>

\* spawn_worker loop after recv: with the shutdown flag set the worker leaves
\* the loop with the task it received; else queued_tasks is decremented,
\* active_tasks incremented and the task's cost added to active_units
WorkerBegin(w) ==
    /\ workers[w].pc = "check"
    /\ IF pool_shutdown
       THEN /\ workers' = [workers EXCEPT ![w].pc = "exited"]
            /\ UNCHANGED <<counters, used_units>>
       ELSE /\ workers' = [workers EXCEPT ![w].pc = "execute"]
            /\ counters' = [counters EXCEPT !.queued = FetchSub(@), !.active = FetchAdd(@)]
            /\ used_units' = used_units + workers[w].task.units
    /\ UNCHANGED <<wpFrame, pool_shutdown, task_tx, closer,
                   task_id_counter, entries, arcs, task_channel, submits, calls>>

\* spawn_worker loop: executor.execute(task.payload, task.meta)
WorkerExecute(w) ==
    /\ workers[w].pc = "execute"
    /\ workers' = [workers EXCEPT ![w].pc = "store",
                                  ![w].result = Execute(workers[w].task.payload)]
    /\ UNCHANGED <<wpOther, task_id_counter, entries, arcs, task_channel, submits, calls>>

\* condvar.notify_all(): every thread waiting on the Arc's condvar is unparked
NotifyAll(arc) ==
    [c \in Calls |->
        IF calls[c].arc # arc THEN calls[c]
        ELSE [calls[c] EXCEPT !.pc = IF @ = "r_wait" THEN "r_woke" ELSE @,
                              !.blk = IF @ = "b_wait" THEN "b_woke" ELSE @]]

\* spawn_worker loop: results.store(&mailbox_key, result); without a slot
\* under the key the result is dropped
WorkerStore(w) ==
    LET ks == mailbox_key_to_string(workers[w].task.mailbox_key) IN
    /\ workers[w].pc = "store"
    /\ IF ks \in DOMAIN entries
       THEN /\ arcs' = [arcs EXCEPT ![entries[ks]] =
                            [result |-> <<workers[w].result>>, state |-> "Ready"]]
            /\ calls' = NotifyAll(entries[ks])
       ELSE UNCHANGED <<arcs, calls>>
    /\ workers' = [workers EXCEPT ![w].pc = "finish"]
    /\ UNCHANGED <<wpOther, task_id_counter, entries, task_channel, submits>>

\* spawn_worker loop after store: active_tasks is decremented, the cost taken
\* off active_units, completed_tasks incremented; back to recv
WorkerFinish(w) ==
    /\ workers[w].pc = "finish"
    /\ counters' = [counters EXCEPT !.active = FetchSub(@), !.completed = FetchAdd(@)]
    /\ used_units' = used_units - workers[w].task.units
    /\ workers' = [workers EXCEPT ![w] = IdleWorker]
    /\ UNCHANGED <<wpFrame, pool_shutdown, task_tx, closer,
                   task_id_counter, entries, arcs, task_channel, submits, calls>>

\* WorkerPool::shutdown: shutdown.swap(true); a second call returns at once
ShutdownSwap ==
    /\ closer.pc = "idle"
    /\ pool_shutdown' = TRUE
    /\ closer' = [closer EXCEPT !.pc = IF pool_shutdown THEN "returned" ELSE "close"]
    /\ UNCHANGED <<wpFrame, counters, used_units, task_tx,
                   task_id_counter, entries, arcs, task_channel, workers, submits, calls>>

\* WorkerPool::shutdown: *task_tx = None under the lock, then the join loop
ShutdownClose ==
    /\ closer.pc = "close"
    /\ task_tx' = FALSE
    /\ closer' = [closer EXCEPT !.pc = "wait", !.idx = 1]
    /\ UNCHANGED <<wpFrame, counters, used_units, pool_shutdown,
                   task_id_counter, entries, arcs, task_channel, workers, submits, calls>>

\* the join loop: rx.recv_timeout(2 s) returns because the worker has exited
\* and the helper thread reported it
ShutdownWaitJoined ==
    /\ closer.pc = "wait"
    /\ workers[closer.idx].pc = "exited"
    /\ closer' = [closer EXCEPT !.pc = "join"]
    /\ UNCHANGED <<wpFrame, counters, used_units, pool_shutdown, task_tx,
                   task_id_counter, entries, arcs, task_channel, workers, submits, calls>>

\* the join loop: rx.recv_timeout(2 s) times out, the worker is said to be
\* detached
ShutdownWaitTimeout ==
    /\ closer.pc = "wait"
    /\ workers[closer.idx].pc # "exited"
    /\ closer' = [closer EXCEPT !.pc = "join", !.detached = @ \cup {closer.idx}]
    /\ UNCHANGED <<wpFrame, counters, used_units, pool_shutdown, task_tx,
                   task_id_counter, entries, arcs, task_channel, workers, submits, calls>>

\* the join loop: join_thread.join() returns when the helper thread's
\* worker.join() has returned, that is when the worker has exited; then the
\* next worker, or the end of shutdown
ShutdownJoin ==
    /\ closer.pc = "join"
    /\ workers[closer.idx].pc = "exited"
    /\ closer' = IF closer.idx < config.worker_count
                 THEN [closer EXCEPT !.pc = "wait", !.idx = @ + 1]
                 ELSE [closer EXCEPT !.pc = "returned"]
    /\ UNCHANGED <<wpFrame, counters, used_units, pool_shutdown, task_tx,
                   task_id_counter, entries, arcs, task_channel, workers, submits, calls>>

\* impl Drop for WorkerPool, when no call is in progress: shutdown.swap(true)
\* and, if it was not set, *task_tx = None; no worker is joined
PoolDrop ==
    /\ closer.pc \in {"idle", "returned"}
    /\ \A s \in Submits : submits[s].pc \in {"idle", "returned"}
    /\ \A c \in Calls : calls[c].pc \in {"idle", "returned"}
    /\ pool_shutdown' = TRUE
    /\ task_tx' = IF pool_shutdown THEN task_tx ELSE FALSE
    /\ closer' = [closer EXCEPT !.pc = "dropped"]
    /\ UNCHANGED <<wpFrame, counters, used_units,
                   task_id_counter, entries, arcs, task_channel, workers, submits, calls>>

\* retrieve -> wait_for_result: entries.get(&key_str).cloned()
RetrieveBegin(c, key) ==
    LET ks == mailbox_key_to_string(key) IN
    /\ CallTurn(c)
    /\ PoolAlive
    /\ key \in ReturnedKeys
    /\ calls' = [calls EXCEPT ![c] =
            IF ks \in DOMAIN entries
            THEN [IdleCall EXCEPT !.pc = "r_lock", !.kind = "retrieve", !.key = key,
                                  !.arc = entries[ks]]
            ELSE [IdleCall EXCEPT !.pc = "r_remove", !.kind = "retrieve", !.key = key,
                                  !.ret = Err("ResultNotFound")]]
    /\ UNCHANGED <<wpOther, task_id_counter, entries, arcs, task_channel, workers, submits>>

\* wait_for_result: lock the entry; Ready takes the result, else wait_for
RetrieveLock(c) ==
    /\ calls[c].pc = "r_lock"
    /\ IF arcs[calls[c].arc].state = "Ready"
       THEN /\ calls' = [calls EXCEPT ![c].pc = "r_remove",
                                      ![c].ret = OkOrNotFound(arcs[calls[c].arc].result)]
            /\ arcs' = [arcs EXCEPT ![calls[c].arc] = Take(@)]
       ELSE /\ calls' = [calls EXCEPT ![c].pc = "r_wait"]
            /\ UNCHANGED arcs
    /\ UNCHANGED <<wpOther, task_id_counter, entries, task_channel, workers, submits>>

\* condvar.wait_for: the timeout elapses before a notification
RetrieveTimeout(c) ==
    /\ calls[c].pc = "r_wait"
    /\ calls' = [calls EXCEPT ![c].pc = "r_woke", ![c].timed_out = TRUE]
    /\ UNCHANGED <<wpOther, task_id_counter, entries, arcs, task_channel, workers, submits>>

\* what wait_for_result returns after wait_for
AfterWait(c) ==
    IF calls[c].timed_out THEN Err("Timeout")
    ELSE IF arcs[calls[c].arc].state = "Ready"
         THEN OkOrNotFound(arcs[calls[c].arc].result)
         ELSE Err("Timeout")

\* wait_for_result after wait_for returned, the entry locked again
RetrieveWoke(c) ==
    /\ calls[c].pc = "r_woke"
    /\ calls' = [calls EXCEPT ![c].pc = "r_remove", ![c].ret = AfterWait(c)]
    /\ arcs' = IF AfterWait(c).tag = "Ok"
               THEN [arcs EXCEPT ![calls[c].arc] = Take(@)] ELSE arcs
    /\ UNCHANGED <<wpOther, task_id_counter, entries, task_channel, workers, submits>>

\* retrieve: results.remove(key), then return what wait_for_result returned
RetrieveRemove(c) ==
    /\ calls[c].pc = "r_remove"
    /\ remove(calls[c].key)
    /\ calls' = [calls EXCEPT ![c].pc = "returned"]
    /\ UNCHANGED <<wpOther, task_id_counter, task_channel, workers, submits>>

\* retrieve_async: results.try_retrieve(key)
AsyncBegin(c, key) ==
    LET ks == mailbox_key_to_string(key)
        ready == ks \in DOMAIN entries /\ arcs[entries[ks]].state = "Ready"
        got == IF ready THEN arcs[entries[ks]].result ELSE <<>>
    IN  /\ CallTurn(c)
        /\ PoolAlive
        /\ key \in ReturnedKeys
        /\ arcs' = IF ready THEN [arcs EXCEPT ![entries[ks]] = Take(@)] ELSE arcs
        /\ calls' = [calls EXCEPT ![c] =
                IF got # <<>>
                THEN [IdleCall EXCEPT !.pc = "a_fast", !.kind = "retrieve_async",
                                      !.key = key, !.ret = Ok(got)]
                ELSE [IdleCall EXCEPT !.pc = "a_get", !.kind = "retrieve_async",
                                      !.key = key]]
        /\ UNCHANGED <<wpOther, task_id_counter, entries, task_channel, workers, submits>>

\* retrieve_async fast path: results.remove(key), return Ok(result)
AsyncFastRemove(c) ==
    /\ calls[c].pc = "a_fast"
    /\ remove(calls[c].key)
    /\ calls' = [calls EXCEPT ![c].pc = "returned"]
    /\ UNCHANGED <<wpOther, task_id_counter, task_channel, workers, submits>>

\* retrieve_async: results.get_entry(key).ok_or(ResultNotFound)?, then
\* spawn_blocking under tokio::time::timeout
AsyncGetEntry(c) ==
    LET ks == mailbox_key_to_string(calls[c].key) IN
    /\ calls[c].pc = "a_get"
    /\ calls' = [calls EXCEPT ![c] =
            IF ks \in DOMAIN entries
            THEN [@ EXCEPT !.pc = "a_wait", !.arc = entries[ks], !.blk = "b_start"]
            ELSE [@ EXCEPT !.pc = "returned", !.ret = Err("ResultNotFound")]]
    /\ UNCHANGED <<wpOther, task_id_counter, entries, arcs, task_channel, workers, submits>>

\* the spawn_blocking closure: lock the entry; Ready takes, else condvar.wait
BlockingLock(c) ==
    /\ calls[c].blk = "b_start"
    /\ IF arcs[calls[c].arc].state = "Ready"
       THEN /\ calls' = [calls EXCEPT ![c].blk = "b_ret",
                                      ![c].bgot = arcs[calls[c].arc].result]
            /\ arcs' = [arcs EXCEPT ![calls[c].arc] = Take(@)]
       ELSE /\ calls' = [calls EXCEPT ![c].blk = "b_wait"]
            /\ UNCHANGED arcs
    /\ UNCHANGED <<wpOther, task_id_counter, entries, task_channel, workers, submits>>

\* the spawn_blocking closure after condvar.wait returned
BlockingWoke(c) ==
    /\ calls[c].blk = "b_woke"
    /\ IF arcs[calls[c].arc].state = "Ready"
       THEN /\ calls' = [calls EXCEPT ![c].blk = "b_ret",
                                      ![c].bgot = arcs[calls[c].arc].result]
            /\ arcs' = [arcs EXCEPT ![calls[c].arc] = Take(@)]
       ELSE /\ calls' = [calls EXCEPT ![c].blk = "b_ret"]
            /\ UNCHANGED arcs
    /\ UNCHANGED <<wpOther, task_id_counter, entries, task_channel, workers, submits>>

\* the spawn_blocking closure returns and its JoinHandle becomes ready
BlockingReturn(c) ==
    /\ calls[c].blk = "b_ret"
    /\ calls' = [calls EXCEPT ![c].blk = "b_done"]
    /\ UNCHANGED <<wpOther, task_id_counter, entries, arcs, task_channel, workers, submits>>

\* retrieve_async: the timeout future yields the closure's value
AsyncJoin(c) ==
    /\ calls[c].pc = "a_wait"
    /\ calls[c].blk = "b_done"
    /\ calls' = [calls EXCEPT ![c].pc = "a_remove", ![c].ret = OkOrNotFound(calls[c].bgot)]
    /\ UNCHANGED <<wpOther, task_id_counter, entries, arcs, task_channel, workers, submits>>

\* retrieve_async: the timeout elapses before the JoinHandle is ready; the
\* closure keeps running on its blocking thread
AsyncTimeout(c) ==
    /\ calls[c].pc = "a_wait"
    /\ calls[c].blk # "b_done"
    /\ calls' = [calls EXCEPT ![c].pc = "a_remove", ![c].timed_out = TRUE,
                              ![c].ret = Err("Timeout")]
    /\ UNCHANGED <<wpOther, task_id_counter, entries, arcs, task_channel, workers, submits>>

\* retrieve_async: results.remove(&key_clone), then the match on result
AsyncRemove(c) ==
    /\ calls[c].pc = "a_remove"
    /\ remove(calls[c].key)
    /\ calls' = [calls EXCEPT ![c].pc = "returned"]
    /\ UNCHANGED <<wpOther, task_id_counter, task_channel, workers, submits>>

\* WorkerPoolConfig values that validate() accepts
WorkerPoolConfigs ==
    [worker_count : WorkerIds,
     max_queue_depth : IF workload \in {"lifecycle", "backlog"}
                       THEN DepthRange ELSE {MaxQueueDepth},
     max_units : {MaxUnits}]

InitWorkerPool ==
    /\ workload = "workerpool"
    /\ limits = [max_units |-> MaxUnits, max_queue_depth |-> MaxQueueDepth]
    /\ InitPool
    /\ InitResults
    /\ config \in WorkerPoolConfigs

NextWorkerPool ==
    \/ \E s \in Submits : \E payload \in PayloadChoices(s), units \in CostChoices :
            SubmitCreate(s, payload, units)
    \/ \E s \in Submits : SubmitSend(s) \/ SubmitCount(s)
    \/ \E w \in WorkerIds :
        \/ WorkerRecv(w) \/ WorkerBegin(w) \/ WorkerExecute(w)
        \/ WorkerStore(w) \/ WorkerFinish(w)
    \/ \E c \in Calls, s \in Submits :
            RetrieveBegin(c, submits[s].key) \/ AsyncBegin(c, submits[s].key)
    \/ \E c \in Calls :
        \/ RetrieveLock(c) \/ RetrieveTimeout(c) \/ RetrieveWoke(c) \/ RetrieveRemove(c)
        \/ AsyncFastRemove(c) \/ AsyncGetEntry(c) \/ AsyncJoin(c) \/ AsyncTimeout(c)
        \/ AsyncRemove(c)
        \/ BlockingLock(c) \/ BlockingWoke(c) \/ BlockingReturn(c)

SpecWorkerPool == InitWorkerPool /\ [][NextWorkerPool]_vars

----------------------------------------------------------------------------
(* The WorkerPool over its life: submits of tasks with a cost, the workers,
   one call of shutdown, and the drop of the pool.  The threads are
   scheduled: a submit in progress goes on, a worker goes on except that an
   executor need not return, and a shutdown call in progress goes on. *)

InitWorkerLifecycle ==
    /\ workload = "lifecycle"
    /\ limits = [max_units |-> MaxUnits, max_queue_depth |-> MaxQueueDepth]
    /\ InitPool
    /\ InitResults
    /\ config \in WorkerPoolConfigs

NextWorkerLifecycle ==
    \/ \E s \in Submits : \E payload \in PayloadChoices(s), units \in CostChoices :
            SubmitCreate(s, payload, units)
    \/ \E s \in Submits : SubmitSend(s) \/ SubmitCount(s)
    \/ \E w \in WorkerIds :
        \/ WorkerRecv(w) \/ WorkerBegin(w) \/ WorkerExecute(w)
        \/ WorkerStore(w) \/ WorkerFinish(w)
    \/ ShutdownSwap
    \/ ShutdownClose
    \/ ShutdownWaitJoined
    \/ ShutdownWaitTimeout
    \/ ShutdownJoin
    \/ PoolDrop

Scheduled ==
    /\ \A s \in Submits : WF_vars(SubmitSend(s)) /\ WF_vars(SubmitCount(s))
    /\ \A w \in WorkerIds :
        /\ WF_vars(WorkerRecv(w)) /\ WF_vars(WorkerBegin(w))
        /\ WF_vars(WorkerStore(w)) /\ WF_vars(WorkerFinish(w))
    /\ WF_vars(ShutdownClose) /\ WF_vars(ShutdownWaitJoined)
    /\ WF_vars(ShutdownWaitTimeout) /\ WF_vars(ShutdownJoin)

SpecWorkerLifecycle == InitWorkerLifecycle /\ [][NextWorkerLifecycle]_vars /\ Scheduled

\* the executors return
Returning == \A w \in WorkerIds : WF_vars(WorkerExecute(w))

SpecWorkerDrain ==
    InitWorkerLifecycle /\ [][NextWorkerLifecycle]_vars /\ Scheduled /\ Returning

----------------------------------------------------------------------------
(* The WorkerPool under callers that submit one task after another, of two
   priorities, up to MaxTaskIds tasks in all; no shutdown, no retrieve *)

\* the caller whose submit has returned makes its next call
SubmitAgain(s) ==
    /\ submits[s].pc = "returned"
    /\ task_id_counter < MaxTaskIds
    /\ submits' = [submits EXCEPT ![s] = IdleSubmit]
    /\ UNCHANGED <<wpOther, task_id_counter, entries, arcs, task_channel, workers, calls>>

InitBacklog ==
    /\ workload = "backlog"
    /\ limits = [max_units |-> MaxUnits, max_queue_depth |-> MaxQueueDepth]
    /\ InitPool
    /\ InitResults
    /\ config \in WorkerPoolConfigs

NextBacklog ==
    \/ \E s \in Submits : \E payload \in PayloadChoices(s), units \in CostChoices :
            SubmitCreate(s, payload, units)
    \/ \E s \in Submits : SubmitSend(s) \/ SubmitCount(s) \/ SubmitAgain(s)
    \/ \E w \in WorkerIds :
        \/ WorkerRecv(w) \/ WorkerBegin(w) \/ WorkerExecute(w)
        \/ WorkerStore(w) \/ WorkerFinish(w)

SpecBacklog == InitBacklog /\ [][NextBacklog]_vars

----------------------------------------------------------------------------
(* InMemoryAuditSink on its own: record calls on sinks of every bound *)

\* the ResourcePool and the native WorkerPool, which these components leave alone
baseVars == <<workload, limits, active_units, queue, mailbox, capacity_available, meta,
              nextId, pc, cur, held, execCount, nReserved, nReleased, pruned,
              sawRelease, qlog, qres, qprune, audit, now_ms, shutdown, worker, fetched,
              wpState>>

\* the events recorded are told apart by their action
AuditActions == {"start", "enqueue", "complete"}

\* VecDeque::pop_front: None, and no change, on an empty deque
PopFront(q) == IF q = <<>> THEN q ELSE Tail(q)

\* InMemoryAuditSink::record: pop_front when len() >= max_events, then push_back
Recorded(events, max_events, event) ==
    Append(IF Len(events) >= max_events THEN PopFront(events) ELSE events, event)

\* sink.record(event)
SinkRecord(event) ==
    /\ Len(sink.recorded) < MaxRecords
    /\ sink' = [sink EXCEPT !.events = Recorded(@, sink.max_events, event),
                            !.recorded = Append(@, event)]
    /\ UNCHANGED <<baseVars, lock_owner, lock_pc, yaque, wasm>>

InitAudit ==
    /\ workload = "audit"
    /\ limits \in PoolConfigs
    /\ InitState

NextAudit == \E event \in AuditActions : SinkRecord(event)

SpecAudit == InitAudit /\ [][NextAudit]_vars

----------------------------------------------------------------------------
(* YaqueQueue beside InMemoryQueue: every call is made on both queues *)

\* each file operation of the backend succeeds or returns an io::Error
IoOutcomes == {"ok", "error"}

\* the lines of the file after rewrite_disk(tasks): the tasks when it
\* succeeds; when it fails, the old lines (open failed) or the lines written
\* before the failing writeln (open has truncated the file)
Rewritten(disk, tasks, io) ==
    IF io = "ok"
    THEN {tasks}
    ELSE {disk} \cup {SubSeq(tasks, 1, k) : k \in 0..(Len(tasks) - 1)}

\* YaqueQueue::enqueue: the depth test, push_back, then append_to_disk(&task)?
YaqueEnqueue(y, t, io) ==
    IF Len(y.tasks) >= y.max_depth
    THEN [y EXCEPT !.op = "enqueue", !.res = "QueueFull", !.got = None]
    ELSE [y EXCEPT !.tasks = Append(@, t),
                   !.disk = IF io = "ok" THEN Append(@, t) ELSE @,
                   !.op = "enqueue",
                   !.res = IF io = "ok" THEN "Ok" ELSE "Backend",
                   !.got = None,
                   !.failed = @ \/ io # "ok"]

\* YaqueQueue::dequeue: pop_front, then rewrite_disk(&self.tasks)?, then Ok(item)
YaqueDequeue(y, io, disk) ==
    [y EXCEPT !.tasks = IF @ = <<>> THEN @ ELSE Tail(@),
              !.disk = disk,
              !.op = "dequeue",
              !.res = IF io # "ok" THEN "Backend"
                      ELSE IF y.tasks = <<>> THEN "None" ELSE "Some",
              !.got = IF io = "ok" /\ y.tasks # <<>> THEN Head(y.tasks) ELSE None,
              !.failed = @ \/ io # "ok"]

\* YaqueQueue::prune_expired: retain, then rewrite_disk(&self.tasks)?
YaquePrune(y, now, io, disk) ==
    [y EXCEPT !.tasks = SelectSeq(@, LAMBDA t : Survives(t, now)),
              !.disk = disk,
              !.op = "prune_expired",
              !.res = IF io = "ok" THEN "Pruned" ELSE "Backend",
              !.got = None,
              !.failed = @ \/ io # "ok"]

\* what the calls on the two queues leave alone
yaqueKeep == <<workload, limits, active_units, mailbox, capacity_available, pc, cur, held,
               execCount, nReserved, nReleased, pruned, sawRelease, qprune, audit, now_ms,
               shutdown, worker, fetched, wpState, lock_owner, lock_pc, sink, wasm>>

\* enqueue(task) of a fresh task on both queues
BothEnqueue(t, m, io) ==
    /\ t = nextId
    /\ nextId' = nextId + 1
    /\ meta' = [meta EXCEPT ![t] = m]
    /\ qres' = IF EnqueueFull(queue) THEN "QueueFull" ELSE "Ok"
    /\ queue' = Enqueue(queue, t)
    /\ qlog' = <<>>
    /\ yaque' = YaqueEnqueue(yaque, t, io)
    /\ UNCHANGED yaqueKeep

\* dequeue() on both queues
BothDequeue(io) ==
    /\ IF queue = {}
       THEN /\ qres' = "None"
            /\ qlog' = <<>>
            /\ queue' = queue
       ELSE \E h \in HeapTop(queue) :
            /\ queue' = Dequeued(queue, h)
            /\ qlog' = <<h>>
            /\ qres' = "Some"
    /\ \E disk \in Rewritten(yaque.disk, IF yaque.tasks = <<>> THEN <<>> ELSE Tail(yaque.tasks), io) :
         yaque' = YaqueDequeue(yaque, io, disk)
    /\ UNCHANGED <<yaqueKeep, meta, nextId>>

\* prune_expired(now_ms) on both queues
BothPrune(now, io) ==
    /\ queue' = PruneExpired(queue, now)
    /\ qres' = "Pruned"
    /\ qlog' = <<>>
    /\ \E disk \in Rewritten(yaque.disk,
                              SelectSeq(yaque.tasks, LAMBDA t : Survives(t, now)), io) :
         yaque' = YaquePrune(yaque, now, io, disk)
    /\ UNCHANGED <<yaqueKeep, meta, nextId>>

InitYaque ==
    /\ workload = "yaque"
    /\ limits \in [max_units : {MaxUnits}, max_queue_depth : DepthRange]
    /\ InitState

NextYaque ==
    \/ \E t \in Tasks, io \in IoOutcomes : \E m \in MetaChoices(t) : BothEnqueue(t, m, io)
    \/ \E io \in IoOutcomes : BothDequeue(io)
    \/ \E now \in Times, io \in IoOutcomes : BothPrune(now, io)

SpecYaque == InitYaque /\ [][NextYaque]_vars

----------------------------------------------------------------------------
(* WorkerPool of worker_pool/wasm.rs on a cooperative runtime: a future runs
   without interleaving from one await to the next *)

wasmKeep == <<baseVars, lock_owner, lock_pc, sink, yaque>>

\* submit_async, which has no await: the shutdown and depth tests (a refused
\* call changes nothing), fetch_add on the id, create_slot, the counters and
\* tokio::spawn.  The receiver create_slot returns is bound to _notify_rx and
\* dropped when the call returns.
WasmSubmit(payload) ==
    /\ ~wasm.shutdown
    /\ wasm.counters.queued < wasm.config.max_queue_depth
    /\ wasm.task_id_counter < MaxWasmTasks
    /\ wasm' = [wasm EXCEPT
         !.task_id_counter = @ + 1,
         !.entries[WasmKey(wasm.task_id_counter)] =
             [state |-> "Pending", result |-> <<>>, notify_tx |-> DroppedReceiver],
         !.counters.submitted = FetchAdd(@),
         !.counters.queued = FetchAdd(@),
         !.tasks[wasm.task_id_counter] = [pc |-> "spawned", payload |-> payload]]
    /\ UNCHANGED wasmKeep

\* the spawned task up to executor.execute(..).await: semaphore.acquire()
\* (Err once the semaphore is closed), the shutdown test, the counters
WasmStart(i) ==
    /\ wasm.tasks[i].pc = "spawned"
    /\ wasm.closed \/ wasm.permits > 0
    /\ wasm' = IF wasm.closed \/ wasm.shutdown
               THEN [wasm EXCEPT !.counters.queued = FetchSub(@),
                                 !.tasks[i].pc = "done"]
               ELSE [wasm EXCEPT !.permits = @ - 1,
                                 !.counters.queued = FetchSub(@),
                                 !.counters.active = FetchAdd(@),
                                 !.active_units = WrappingAdd(@, 1),
                                 !.tasks[i].pc = "executing"]
    /\ UNCHANGED wasmKeep

\* ResultStorage::store (wasm.rs): on an entry of the key, result, Ready, and
\* notify_tx.take() with a send to the receiver, if a call holds it
WasmStored(w, key, result) ==
    IF w.entries[key].state = "none"
    THEN w
    ELSE [w EXCEPT
           !.entries[key] = [state |-> "Ready", result |-> result, notify_tx |-> NoSender],
           !.calls = [c \in WasmCalls |->
                        IF w.entries[key].notify_tx = c
                        THEN [w.calls[c] EXCEPT !.notified = TRUE]
                        ELSE w.calls[c]]]

\* the spawned task after the executor returns: store, the counters, and the
\* permit dropped
WasmFinish(i) ==
    /\ wasm.tasks[i].pc = "executing"
    /\ wasm' = [WasmStored(wasm, WasmKey(i), Execute(wasm.tasks[i].payload)) EXCEPT
                  !.counters.active = FetchSub(@),
                  !.active_units = WrappingSub(@, 1),
                  !.counters.completed = FetchAdd(@),
                  !.permits = @ + 1,
                  !.tasks[i].pc = "done"]
    /\ UNCHANGED wasmKeep

\* ResultStorage::try_retrieve: Some(result) when the entry is Ready
WasmReady(w, key) == w.entries[key].state = "Ready" /\ w.entries[key].result # <<>>

\* ResultStorage::get_notify_rx gives a receiver: the entry is Pending and has
\* no sender
WasmGivesReceiver(w, key) ==
    w.entries[key].state = "Pending" /\ w.entries[key].notify_tx = NoSender

\* retrieve_async from its start, or from its await on the receiver, to its
\* next await or its return.  From the start: try_retrieve and remove, else
\* get_notify_rx, else try_retrieve again and ResultNotFound.  From the
\* await: the notification (remove, Ok or ResultNotFound), the sender dropped
\* with its entry (Internal), or the timeout (remove, Timeout).
WasmRetrieve(c, key, timed_out) ==
    LET call == wasm.calls[c]
        k == IF call.pc = "waiting" THEN call.key ELSE key
        entry == wasm.entries[k]
        removed == [wasm EXCEPT !.entries[k] = NoWasmEntry]
        returned(w, r) ==
            [w EXCEPT !.calls[c] = [call EXCEPT !.pc = "returned", !.key = k, !.ret = r,
                                                !.had_slot = IF call.pc = "waiting"
                                                             THEN @ ELSE entry.state # "none"]]
    IN  /\ wasm' =
            IF call.pc = "waiting"
            THEN IF call.notified
                 THEN returned(removed, IF entry.result # <<>> THEN Ok(entry.result)
                                        ELSE Err("ResultNotFound"))
                 ELSE IF entry.notify_tx # c
                 THEN returned(removed, Err("Internal"))
                 ELSE IF timed_out
                 THEN returned(removed, Err("Timeout"))
                 ELSE wasm
            ELSE IF WasmReady(wasm, k)
            THEN returned(removed, Ok(entry.result))
            ELSE IF WasmGivesReceiver(wasm, k)
            THEN [wasm EXCEPT !.entries[k].notify_tx = c,
                              !.calls[c] = [pc |-> "waiting", key |-> k, had_slot |-> TRUE,
                                            notified |-> FALSE, ret |-> NoReturn]]
            ELSE returned(wasm, Err("ResultNotFound"))
        /\ UNCHANGED wasmKeep

\* WorkerPool::shutdown (wasm.rs): the swap of the flag, then semaphore.close()
WasmShutdown ==
    /\ ~wasm.shutdown
    /\ wasm' = [wasm EXCEPT !.shutdown = TRUE, !.closed = TRUE]
    /\ UNCHANGED wasmKeep

InitWasm ==
    /\ workload = "wasm"
    /\ limits \in PoolConfigs
    /\ InitState

NextWasm ==
    \/ \E payload \in Payloads : WasmSubmit(payload)
    \/ \E i \in WasmTaskIds : WasmStart(i)
    \/ \E i \in WasmTaskIds : WasmFinish(i)
    \/ \E c \in WasmCalls, key \in WasmKeys, timed_out \in BOOLEAN :
         WasmRetrieve(c, key, timed_out)
    \/ WasmShutdown

SpecWasm == InitWasm /\ [][NextWasm]_vars

----------------------------------------------------------------------------
(* The mutexes of the ResourcePool: every operation of the pool as the
   sequence of lock(), guard drops and lock-free stretches it goes through.
   The data under the queue, mailbox and audit mutexes is left out here, so a
   branch on it may go either way; the wake state is kept. *)

Lock(m, next) == [op |-> "lock", mutex |-> m, next |-> next]
Unlock(m, next) == [op |-> "unlock", mutex |-> m, next |-> next]
Step(next) == [op |-> "step", mutex |-> "none", next |-> next]

\* The positions of a thread and what it does at each.  `scoped` tells
\* whether the guard of wake_state in on_task_finished_static is dropped at
\* the end of its block or lives to the end of the function.
ProgramTable(scoped) ==
    [idle |-> [op |-> "idle", mutex |-> "none", next |-> {}],
     \* submit: deadline test and CAS, then record_audit("start") and spawn_task
     s_begin |-> Step({"idle", "s_start_audit", "s_spawn", "s_check_lock"}),
     s_start_audit |-> Lock("audit", {"s_start_audited"}),
     s_start_audited |-> Unlock("audit", {"s_spawn"}),
     s_spawn |-> Step({"idle"}),
     \* submit: the depth check, record_audit("enqueue"), queue.enqueue(task)?
     s_check_lock |-> Lock("queue", {"s_check"}),
     s_check |-> Unlock("queue", {"idle", "s_enq_audit", "s_enq_lock"}),
     s_enq_audit |-> Lock("audit", {"s_enq_audited"}),
     s_enq_audited |-> Unlock("audit", {"s_enq_lock"}),
     s_enq_lock |-> Lock("queue", {"s_enq"}),
     s_enq |-> Unlock("queue", {"idle"}),
     \* the spawned future: executor.execute, then on_task_finished_static
     execute |-> Step({"f_wake_lock"}),
     f_wake_lock |-> Lock("wake_state", {"f_wake_set"}),
     f_wake_set |-> IF scoped
                    THEN Unlock("wake_state", {"f_mailbox_lock", "f_audit_lock", "f_spawn"})
                    ELSE Step({"f_mailbox_lock", "f_audit_lock", "f_spawn"}),
     f_mailbox_lock |-> Lock("mailbox", {"f_deliver"}),
     f_deliver |-> Unlock("mailbox", {"f_audit_lock", "f_spawn"}),
     f_audit_lock |-> Lock("audit", {"f_audited"}),
     f_audited |-> Unlock("audit", {"f_spawn"}),
     f_spawn |-> IF scoped THEN Step({"idle"}) ELSE Unlock("wake_state", {"idle"}),
     \* try_wake_next_static
     w_dequeue_lock |-> Lock("queue", {"w_dequeue"}),
     w_dequeue |-> Unlock("queue", {"idle", "w_check"}),
     w_check |-> Step({"w_reenq_lock", "w_cas"}),
     w_cas |-> Step({"w_reenq_lock", "w_audit_lock", "w_spawn"}),
     w_reenq_lock |-> Lock("queue", {"w_reenq"}),
     w_reenq |-> Unlock("queue", {"idle"}),
     w_audit_lock |-> Lock("audit", {"w_audited"}),
     w_audited |-> Unlock("audit", {"w_spawn"}),
     w_spawn |-> Step({"w_dequeue_lock"}),
     \* prune_expired
     p_lock |-> Lock("queue", {"p_prune"}),
     p_prune |-> Unlock("queue", {"idle", "p_audit_lock"}),
     p_audit_lock |-> Lock("audit", {"p_audited"}),
     p_audited |-> Unlock("audit", {"idle"}),
     \* shutdown
     h_lock |-> Lock("wake_state", {"h_set"}),
     h_set |-> Unlock("wake_state", {"idle"}),
     \* sync_wake_worker_loop
     y_lock |-> Lock("wake_state", {"y_test"}),
     y_test |-> [op |-> "test", mutex |-> "wake_state", next |-> {}],
     y_wait |-> Lock("wake_state", {"y_test"}),
     y_dequeue_lock |-> Lock("queue", {"y_dequeue"}),
     y_dequeue |-> Unlock("queue", {"y_lock", "y_check"}),
     y_check |-> Step({"y_reenq_lock", "y_cas"}),
     y_cas |-> Step({"y_reenq_lock", "y_dequeue_lock"}),
     y_reenq_lock |-> Lock("queue", {"y_reenq"}),
     y_reenq |-> Unlock("queue", {"y_lock"})]

\* on_task_finished_static with the wake_state guard held to its end
LockProgramUnscoped == ProgramTable(FALSE)

\* the operations as written
LockProgram == ProgramTable(TRUE)

\* where a caller, the spawner or the wake thread enters an operation
LockEntries == {"s_begin", "execute", "w_dequeue_lock", "p_lock", "h_lock", "y_lock"}

lockKeep == <<workload, limits, active_units, queue, mailbox, meta, nextId, pc, cur, held,
              execCount, nReserved, nReleased, pruned, sawRelease, qlog, qres, qprune,
              audit, now_ms, worker, fetched, wpState, sink, yaque, wasm>>

\* what leaving position p writes to the wake state
FlagAfter(p) == IF p = "f_wake_set" THEN TRUE ELSE capacity_available
ShutdownAfter(p) == IF p = "h_set" THEN TRUE ELSE shutdown

\* a thread starts an operation
LockBegin(t, entry) ==
    /\ lock_pc[t] = "idle"
    /\ lock_pc' = [lock_pc EXCEPT ![t] = entry]
    /\ UNCHANGED <<lockKeep, lock_owner, capacity_available, shutdown>>

\* mutex.lock() returns once the mutex is free
LockAcquire(t) ==
    LET at == LockProgram[lock_pc[t]]
    IN  /\ at.op = "lock"
        /\ lock_owner[at.mutex] = NoThread
        /\ lock_owner' = [lock_owner EXCEPT ![at.mutex] = t]
        /\ \E p \in at.next : lock_pc' = [lock_pc EXCEPT ![t] = p]
        /\ UNCHANGED <<lockKeep, capacity_available, shutdown>>

\* the critical section ends: the guard is dropped
LockRelease(t) ==
    LET at == LockProgram[lock_pc[t]]
    IN  /\ at.op = "unlock"
        /\ lock_owner' = [lock_owner EXCEPT ![at.mutex] = NoThread]
        /\ \E p \in at.next : lock_pc' = [lock_pc EXCEPT ![t] = p]
        /\ capacity_available' = FlagAfter(lock_pc[t])
        /\ shutdown' = ShutdownAfter(lock_pc[t])
        /\ UNCHANGED lockKeep

\* a stretch that takes no mutex and drops none
LockStep(t) ==
    LET at == LockProgram[lock_pc[t]]
    IN  /\ at.op = "step"
        /\ \E p \in at.next : lock_pc' = [lock_pc EXCEPT ![t] = p]
        /\ capacity_available' = FlagAfter(lock_pc[t])
        /\ shutdown' = ShutdownAfter(lock_pc[t])
        /\ UNCHANGED <<lockKeep, lock_owner>>

\* sync_wake_worker_loop under the wake_state guard: wake_condvar.wait (which
\* releases the mutex), or the break on shutdown, or the flag reset and
\* drop(state)
SyncTest(t) ==
    /\ LockProgram[lock_pc[t]].op = "test"
    /\ lock_owner' = [lock_owner EXCEPT !["wake_state"] = NoThread]
    /\ lock_pc' = [lock_pc EXCEPT ![t] =
                     IF ~capacity_available /\ ~shutdown THEN "y_wait"
                     ELSE IF shutdown THEN "idle"
                     ELSE "y_dequeue_lock"]
    /\ capacity_available' = IF capacity_available /\ ~shutdown
                             THEN FALSE
                             ELSE capacity_available
    /\ UNCHANGED <<lockKeep, shutdown>>

InitLocks ==
    /\ workload = "locks"
    /\ limits \in PoolConfigs
    /\ InitState

NextLocks ==
    \/ \E t \in LockThreads, entry \in LockEntries : LockBegin(t, entry)
    \/ \E t \in LockThreads : LockAcquire(t)
    \/ \E t \in LockThreads : LockRelease(t)
    \/ \E t \in LockThreads : LockStep(t)
    \/ \E t \in LockThreads : SyncTest(t)

SpecLocks == InitLocks /\ [][NextLocks]_vars

----------------------------------------------------------------------------
(* Properties of the pool *)

RECURSIVE SumCost(_)
SumCost(S) ==
    IF S = {} THEN 0
    ELSE LET t == CHOOSE x \in S : TRUE IN Cost(t) + SumCost(S \ {t})

\* The tasks whose execution was spawned and has not released its units
Running == {t \in Tasks : pc[t] = "exec"}

\* Threads that have released capacity and have not finished their wake pass
WakePending ==
    {t \in Tasks : pc[t] \in {"f_notify", "w_start", "w_deq", "w_check", "w_cas", "w_reenq"}}

EligibleParked == \E t \in queue : Fits(active_units, Cost(t))

\* C2: no lost wake-up.  Whenever capacity is free and a parked task that fits
\* is in the queue, some wake_next pass is running or about to run (a pass is
\* the only thing that starts a parked task, so without one no parked task
\* reaches Running unless a further completion happens).
C2_NoLostWakeUp == EligibleParked => WakePending # {}

\* C3: a task for which submit returned Queued and that has not been started
\* is in the queue, held by a wake_next pass, or was removed by prune_expired.
C3_NoParkedTaskDropped ==
    \A t \in Tasks :
        pc[t] = "parked" => (t \in queue \/ t \in HeldTasks \/ t \in pruned)

\* The pool is at rest: no submit in progress, nothing executing, no completion
\* handler or wake_next pass running or pending.
AtRest == InSubmit = {} /\ Running = {} /\ WakePending = {}

\* C6: every accepted task is eventually executed.  Once the pool has come to
\* rest, the queue is empty, active_units is 0 and no accepted task (other than
\* one removed by prune_expired) is left unexecuted.
C6_RestsWithAllExecuted ==
    AtRest =>
        /\ queue = {}
        /\ active_units = 0
        /\ \A t \in Tasks : pc[t] = "parked" => t \in pruned

\* Tasks whose executor has returned
Finished == {t \in Tasks : pc[t] \in {"f_notify", "w_start", "w_deq", "w_check",
                                       "w_cas", "w_reenq", "done"}}

C5_ReservationPairing ==
    \A t \in Tasks :
        /\ nReserved[t] <= 1
        /\ nReleased[t] <= nReserved[t]
        /\ execCount[t] = nReserved[t]
        /\ (nReserved[t] = 1 /\ nReleased[t] = 0) <=> t \in Running
        /\ t \in Finished <=> nReleased[t] = 1
        /\ t \in Running => active_units >= Cost(t)

\* C5 witness: a task woken from the queue has run and released its units
\* while a task started by submit's fast path still holds its reservation.
C5_Witness ==
    \E t, u \in Tasks :
        /\ t \in Finished /\ nReserved[t] = 1 /\ nReleased[t] = 1
        /\ u \in Running /\ u < t
        /\ active_units = Cost(u)

\* C8: when A outranks B and both were in the queue at a release of capacity,
\* B does not reserve capacity while A is still waiting (in the queue or in
\* the hands of a wake pass).
C8_WakeInRankOrder ==
    [][\A p \in sawRelease :
        (pc[p[2]] = "parked" /\ pc'[p[2]] = "exec") =>
            ~(pc[p[1]] = "parked" /\ p[1] \in queue \cup HeldTasks)]_vars

\* The tasks whose completion handler is past the mailbox delivery
Delivered == {t \in Tasks : pc[t] \in {"w_start", "w_deq", "w_check", "w_cas", "w_reenq", "done"}}
MessagesOf(t) ==
    {<<k, i>> \in MailboxKeys \X (1..NumTasks) :
        i <= Len(mailbox[k]) /\ mailbox[k][i].payload = Result(t)}

\* C9: a task with a mailbox key whose completion handler has delivered has
\* exactly one message, in its own key's mailbox, with status Completed and
\* its result as payload; every other task (no key, not yet finished, rejected
\* at submit, pruned, still parked) has none, and the mailboxes hold nothing
\* else.
C9_OneMessagePerExecution ==
    /\ \A t \in Tasks :
        IF t \in Delivered /\ MailboxChoice(t) # NoKey
        THEN \E i \in 1..Len(mailbox[MailboxChoice(t)]) :
                /\ MessagesOf(t) = {<<MailboxChoice(t), i>>}
                /\ mailbox[MailboxChoice(t)][i].status = "Completed"
        ELSE MessagesOf(t) = {}
    /\ \A k \in MailboxKeys :
        Len(mailbox[k]) = Cardinality({t \in Delivered : MailboxChoice(t) = k})

\* C9 witness: two tasks with the same key have delivered, a task without a
\* key has finished, and another task with a key was rejected at submit or
\* pruned.
C9_Witness ==
    /\ \E t, u \in Delivered :
        t # u /\ MailboxChoice(t) # NoKey /\ MailboxChoice(t) = MailboxChoice(u)
    /\ \E t \in Delivered : MailboxChoice(t) = NoKey
    /\ \E t \in Tasks :
        /\ MailboxChoice(t) # NoKey
        /\ pc[t] \in {"QueueFull", "DeadlineExpired"} \/ t \in pruned

\* What an enqueue of h into the queue must do in a step
EnqueueContract(h, full) ==
    IF QueueLen(queue) >= limits.max_queue_depth
    THEN full /\ queue' = queue
    ELSE ~full /\ queue' = queue \cup {h} /\ QueueLen(queue') = QueueLen(queue) + 1

C11_QueueFullRejection ==
    /\ [](\A t \in Tasks : pc[t] = "QueueFull" =>
            /\ t \notin queue /\ t \notin HeldTasks
            /\ execCount[t] = 0 /\ nReserved[t] = 0)
    /\ [][\A t \in Tasks :
            /\ (pc[t] = "s_depth" /\ pc'[t] # "s_depth") =>
                (QueueLen(queue) >= limits.max_queue_depth <=> pc'[t] = "QueueFull")
            /\ (pc[t] # "QueueFull" /\ pc'[t] = "QueueFull") =>
                /\ QueueLen(queue) >= limits.max_queue_depth
                /\ queue' = queue /\ active_units' = active_units
                /\ execCount' = execCount]_vars

\* C11 witness: a task was rejected with QueueFull while another task runs and
\* the queue is full, and a task submitted before the rejected one is parked.
C11_Witness ==
    \E t \in Tasks :
        /\ pc[t] = "QueueFull"
        /\ Running # {} /\ active_units > 0
        /\ QueueLen(queue) = limits.max_queue_depth
        /\ \E u \in queue : u < t

AuditOf(t) == {e \in audit : e[1] = t}

\* C12: submit fails with DeadlineExpired exactly when the task has a deadline
\* and deadline_ms < now_ms (equal is admitted); a task so rejected is never
\* reserved for, executed or enqueued, has no mailbox message and no audit
\* event, and the rejecting step leaves active_units, the queue, the mailbox
\* and the audit sink unchanged.
C12_DeadlineRejection ==
    /\ [](\A t \in Tasks : (pc[t] # "new" /\ meta[t] # NoMeta) =>
            (pc[t] = "DeadlineExpired" <=>
                (meta[t].deadline_ms # NoDeadline /\ meta[t].deadline_ms < now_ms[t])))
    /\ [](\A t \in Tasks : pc[t] = "DeadlineExpired" =>
            /\ execCount[t] = 0 /\ nReserved[t] = 0
            /\ t \notin queue /\ t \notin HeldTasks
            /\ MessagesOf(t) = {} /\ AuditOf(t) = {})
    /\ [][\A t \in Tasks : (pc[t] # "DeadlineExpired" /\ pc'[t] = "DeadlineExpired") =>
            UNCHANGED <<active_units, queue, mailbox, audit, execCount>>]_vars

\* C12 witness: with an audit sink attached, one task was rejected with
\* DeadlineExpired and another, submitted at a now_ms equal to its deadline,
\* was admitted; other tasks have left audit events.
C12_Witness ==
    /\ AuditAttached /\ audit # {}
    /\ \E t \in Tasks : pc[t] = "DeadlineExpired" /\ meta[t].deadline_ms < now_ms[t]
    /\ \E u \in Tasks :
        /\ pc[u] \in {"exec", "parked"}
        /\ meta[u].deadline_ms # NoDeadline /\ meta[u].deadline_ms = now_ms[u]

\* C14: with an oversized task parked in the queue, a parked task that fits
\* in the free capacity when a wake pass starts (capacity was released, no
\* submit is in progress) is eventually started.
Oversized(t) == Cost(t) > limits.max_units
C14_OversizedDoesNotWedge ==
    \A t \in Tasks :
        (/\ t \in queue /\ Fits(active_units, Cost(t))
         /\ \E o \in queue : Oversized(o)
         /\ InSubmit = {}
         /\ \E p \in Tasks : pc[p] = "w_start")
            ~> (execCount[t] = 1)

\* C15: a task that has not been handed to submit when shutdown is set is
\* never admitted afterwards: its submit returns neither Running (the task
\* executing) nor Queued (the task parked).
C15_NoAdmissionAfterShutdown ==
    \A t \in Tasks :
        []((shutdown /\ pc[t] = "new") => [](pc[t] \notin {"exec", "parked"}))

\* C16: the pool in sync wake mode behaves as in async wake mode: a task for
\* which capacity was reserved is executed (each reservation has its
\* execution), and active_units is the cost of the tasks executing, so it is
\* back at 0 when they are done.
C16_SyncModeEquivalent ==
    /\ \A t \in Tasks : nReserved[t] = execCount[t]
    /\ active_units = SumCost(Running)

----------------------------------------------------------------------------
(* Properties of the queue *)

\* C7: successive dequeue() calls return tasks in non-increasing priority and,
\* within equal priority, in non-decreasing created_at_ms; dequeue on an empty
\* queue returns none, and only then.
C7_DequeueOrder ==
    /\ \A i \in 1..(Len(qlog) - 1) :
        LET a == meta[qlog[i]]
            b == meta[qlog[i + 1]]
        IN  /\ priority_value(a.priority) >= priority_value(b.priority)
            /\ a.priority = b.priority => a.created_at_ms <= b.created_at_ms
    /\ qres = "None" => queue = {} 
    /\ qres = "Some" => qlog # <<>>

\* C7 witness: three successive dequeues returned tasks in an order that is
\* not the enqueue order, with a drop in priority and, within one priority, a
\* rise of created_at_ms.
C7_Witness ==
    /\ Len(qlog) = 3
    /\ \E i \in 1..2 : qlog[i] > qlog[i + 1]
    /\ \E i \in 1..2 :
        priority_value(meta[qlog[i]].priority) > priority_value(meta[qlog[i + 1]].priority)
    /\ \E i \in 1..2 :
        /\ meta[qlog[i]].priority = meta[qlog[i + 1]].priority
        /\ meta[qlog[i]].created_at_ms < meta[qlog[i + 1]].created_at_ms

\* The tasks prune_expired(now) is to remove: a deadline, and deadline_ms < now
Expired(t, now) == meta[t].deadline_ms # NoDeadline /\ meta[t].deadline_ms < now

\* C13: prune_expired(now) removes exactly the queued tasks with a deadline
\* below now and returns their number; tasks with no deadline or with
\* deadline_ms >= now stay; a task dequeued after the prune is a survivor that
\* no task left in the queue outranks.
C13_PruneExactlyExpired ==
    /\ qres = "Pruned" =>
        /\ queue = {t \in qprune.before : ~Expired(t, qprune.now)}
        /\ qprune.removed = Cardinality({t \in qprune.before : Expired(t, qprune.now)})
    /\ (qprune.called /\ qres = "Some") =>
        /\ qlog[Len(qlog)] \in qprune.before
        /\ ~Expired(qlog[Len(qlog)], qprune.now)
        /\ \A u \in queue : ~Greater(u, qlog[Len(qlog)])

----------------------------------------------------------------------------
(* Properties of the mailbox *)

\* The positions in the key's sequence of the messages a fetch is to consider
Qualifying(key, since) ==
    {i \in 1..Len(mailbox[key]) :
        since = NoSince \/ mailbox[key][i].created_at_ms >= since}

\* C17: a fetch returns, in delivery order, the first `limit` messages of the
\* key that are not older than since_ms (all of the key's messages qualify
\* without since_ms), and nothing for a key without deliveries; a fetch leaves
\* the mailbox as it is; a deliver appends one message to its key's sequence
\* and leaves the earlier messages and the other keys as they are.
C17_FetchAndDeliver ==
    /\ [](fetched.called =>
            LET Q == Qualifying(fetched.key, fetched.since)
                r == fetched.result
            IN  /\ Len(r) = Min(fetched.limit, Cardinality(Q))
                /\ \A j \in 1..Len(r) : \E i \in Q :
                    /\ Cardinality({k \in Q : k <= i}) = j
                    /\ r[j] = mailbox[fetched.key][i]
                /\ mailbox[fetched.key] = <<>> => r = <<>>)
    /\ [][/\ (fetched'.called /\ fetched' # fetched) => mailbox' = mailbox
          /\ mailbox' # mailbox =>
                \E key \in MailboxKeys :
                    /\ Len(mailbox'[key]) = Len(mailbox[key]) + 1
                    /\ SubSeq(mailbox'[key], 1, Len(mailbox[key])) = mailbox[key]
                    /\ \A k \in MailboxKeys \ {key} : mailbox'[k] = mailbox[k]]_vars

\* C17 witness: a fetch with since_ms and a limit below the number of
\* qualifying messages returned `limit` messages, skipping an older message
\* delivered before them.
C17_Witness ==
    /\ fetched.called /\ fetched.since # NoSince
    /\ fetched.limit >= 1 /\ Len(fetched.result) = fetched.limit
    /\ Cardinality(Qualifying(fetched.key, fetched.since)) > fetched.limit
    /\ 1 \notin Qualifying(fetched.key, fetched.since)

----------------------------------------------------------------------------
(* Properties of the WorkerPool *)

\* the calls on a key that got the result
OkCalls(key) == {c \in Calls : calls[c].key = key /\ calls[c].ret.tag = "Ok"}

\* C18: for every key that submit returned, at most one retrieve or
\* retrieve_async call gets the result, and every call that has returned
\* returned the result, Timeout or ResultNotFound
C18_ResultConsumedAtMostOnce ==
    \A key \in ReturnedKeys :
        /\ Cardinality(OkCalls(key)) <= 1
        /\ \A c \in Calls : (calls[c].key = key /\ calls[c].pc = "returned") =>
                calls[c].ret.tag \in {"Ok", "Timeout", "ResultNotFound"}

\* a retrieve and a retrieve_async on the same key have both returned, one
\* with the result and the other with ResultNotFound
C18_Witness ==
    \E c, d \in Calls :
        /\ calls[c].key = calls[d].key /\ calls[c].kind # calls[d].kind
        /\ calls[c].pc = "returned" /\ calls[d].pc = "returned"
        /\ calls[c].ret.tag = "Ok" /\ calls[d].ret.tag = "ResultNotFound"

\* C19: the keys that submit returns are distinct, and a call that got a
\* result on key k got the result of executing the payload of the submit
\* that returned k
C19_ResultRouting ==
    /\ \A s, t \in Submits :
            (s # t /\ submits[s].ret = "Ok" /\ submits[t].ret = "Ok") =>
                submits[s].key # submits[t].key
    /\ \A c \in Calls, s \in Submits :
            (/\ calls[c].ret.tag = "Ok"
             /\ submits[s].ret = "Ok"
             /\ submits[s].key = calls[c].key) =>
                calls[c].ret.value = <<Execute(submits[s].payload)>>

\* two tasks with different payloads ran on two workers and each result
\* was returned on its own key, the second task's result first
C19_Witness ==
    /\ config.worker_count = 2
    /\ submits[1].ret = "Ok" /\ submits[2].ret = "Ok"
    /\ submits[1].payload # submits[2].payload
    /\ calls[1].pc = "returned" /\ calls[1].key = submits[2].key
    /\ calls[1].ret = Ok(<<Execute(submits[2].payload)>>)
    /\ calls[2].pc = "returned" /\ calls[2].key = submits[1].key
    /\ calls[2].ret = Ok(<<Execute(submits[1].payload)>>)

\* C20: a retrieve whose wait timed out returns Timeout; once a retrieve or
\* retrieve_async has returned, the store has no slot under its key; a
\* worker that stores under a key without a slot changes nothing; and a
\* call that begins after a call on the same key returned gets ResultNotFound
C20_RetrieveTimeout ==
    /\ [](\A c \in Calls :
            /\ (calls[c].timed_out /\ calls[c].ret # NoReturn) =>
                    calls[c].ret = Err("Timeout")
            /\ calls[c].pc = "returned" =>
                    mailbox_key_to_string(calls[c].key) \notin DOMAIN entries)
    /\ [][\A w \in WorkerIds :
            (/\ workers[w].pc = "store" /\ workers'[w].pc # "store"
             /\ mailbox_key_to_string(workers[w].task.mailbox_key) \notin DOMAIN entries)
                => (arcs' = arcs /\ entries' = entries /\ calls' = calls)]_vars
    /\ \A c, d \in Calls :
            []((calls[d].pc = "returned" /\ calls[c].pc = "idle") =>
                [](( calls[c].pc = "returned" /\ calls[c].key = calls[d].key) =>
                        calls[c].ret = Err("ResultNotFound")))

\* a retrieve timed out and returned Timeout, the worker then finished the
\* task and its result went nowhere, and a later call got ResultNotFound
C20_Witness ==
    \E c, d \in Calls :
        /\ c < d /\ calls[c].key = calls[d].key
        /\ calls[c].kind = "retrieve" /\ calls[c].timed_out
        /\ calls[c].pc = "returned" /\ calls[c].ret = Err("Timeout")
        /\ arcs[calls[c].arc] = PendingEntry
        /\ task_channel = <<>>
        /\ \A w \in WorkerIds : workers[w].pc = "recv"
        /\ \A s \in Submits : submits[s].pc = "returned"
        /\ calls[d].pc = "returned" /\ calls[d].ret = Err("ResultNotFound")

\* the result of the task of submit s is in its slot
Stored(s) ==
    /\ mailbox_key_to_string(submits[s].key) \in DOMAIN entries
    /\ arcs[entries[mailbox_key_to_string(submits[s].key)]] =
            [result |-> <<Execute(submits[s].payload)>>, state |-> "Ready"]

\* C21: a task whose submit has returned its key while shutdown was not yet
\* called is executed and its result stored in its slot, whether or not
\* shutdown is called afterwards (the pool not being dropped)
C21_ShutdownDrains ==
    \A s \in Submits :
        (submits[s].ret = "Ok" /\ ~pool_shutdown /\ closer.pc = "idle")
            ~> (Stored(s) \/ closer.pc = "dropped")

\* the slot of submit s's key is gone from the result storage after the step
SlotRemoved(s) == mailbox_key_to_string(submits[s].key) \notin DOMAIN entries'

\* submit s was refused in this step: no slot under its key, no task sent,
\* no counter changed
Refused(s, error) ==
    /\ submits'[s].pc = "returned"
    /\ submits'[s].ret = error
    /\ SlotRemoved(s)
    /\ task_channel' = task_channel
    /\ counters' = counters

\* submit s starts with the shutdown flag set: PoolShutdown, and neither the
\* result storage nor the id counter, the channel or the counters change
RefusedAtFlag(s) ==
    (submits[s].pc = "idle" /\ submits'[s].pc # "idle" /\ pool_shutdown) =>
        /\ submits'[s].pc = "returned"
        /\ submits'[s].ret = "PoolShutdown"
        /\ UNCHANGED <<entries, arcs, task_id_counter, task_channel, counters>>

\* submit s is accepted in this step: its task joins the channel behind the
\* tasks accepted before it, as any accepted task does
Accepted(s) ==
    /\ submits'[s].pc = "s_count"
    /\ task_channel' = Append(task_channel,
            [payload |-> submits[s].payload, priority |-> submits[s].priority,
             units |-> submits[s].units,
             mailbox_key |-> submits[s].key])

\* submit s passed the flag test before shutdown() set the flag and reaches
\* the channel after it
Racing(s) == submits[s].pc = "s_send" /\ submits'[s].pc # "s_send" /\ pool_shutdown

\* C22 (as stated): once the shutdown flag is set every submit fails with
\* PoolShutdown, leaves no slot and changes no counter; a submit racing with
\* shutdown is either refused with PoolShutdown or accepted
C22_RacingSubmitTwoOutcomes ==
    [][\A s \in Submits :
        /\ RefusedAtFlag(s)
        /\ Racing(s) => (Refused(s, "PoolShutdown") \/ Accepted(s))]_vars

\* C22 (amended): once the shutdown flag is set every submit fails with
\* PoolShutdown, leaves no slot and changes no counter; a submit racing with
\* shutdown is refused with PoolShutdown, or refused with QueueFull when the
\* channel is full and its sender not yet dropped, or accepted; a refused
\* racing submit leaves no slot and changes no counter
C22_SubmitAfterShutdown ==
    [][\A s \in Submits :
        /\ RefusedAtFlag(s)
        /\ Racing(s) =>
            \/ Refused(s, "PoolShutdown")
            \/ /\ Refused(s, "QueueFull")
               /\ task_tx
               /\ Len(task_channel) = config.max_queue_depth
            \/ Accepted(s)]_vars

\* one submit was refused at the flag test and another, which had its key
\* before the flag was set, at the dropped sender
C22_Witness ==
    \E s, r \in Submits :
        /\ submits[s].pc = "returned" /\ submits[s].ret = "PoolShutdown"
        /\ submits[s].key = NoMailboxKey
        /\ submits[r].pc = "returned" /\ submits[r].ret = "PoolShutdown"
        /\ submits[r].key # NoMailboxKey
        /\ mailbox_key_to_string(submits[r].key) \notin DOMAIN entries

\* C23: at every moment the units of the tasks being executed, which is
\* what stats() reports as used_units, are at most max_units
C23_CapacityLimit == used_units <= config.max_units

\* the task of submit s is with no worker and not in the channel
NotHandedOver(s) ==
    /\ \A w \in WorkerIds : workers[w].task.mailbox_key # submits[s].key
    /\ \A i \in 1..Len(task_channel) : task_channel[i].mailbox_key # submits[s].key

\* C24: a submit that reaches a channel holding max_queue_depth tasks, in a
\* pool not shut down, takes its step (it does not wait for room) and fails
\* with QueueFull, its slot removed and no counter changed; the payload of a
\* submit that failed is never with a worker
C24_QueueOverflow ==
    /\ [][\A s \in Submits :
            (/\ submits[s].pc = "s_send" /\ submits'[s].pc # "s_send"
             /\ ~pool_shutdown
             /\ Len(task_channel) >= config.max_queue_depth)
                => Refused(s, "QueueFull")]_vars
    /\ [](\A s \in Submits :
            /\ submits[s].pc = "s_send" => ENABLED SubmitSend(s)
            /\ submits[s].ret = "QueueFull" => NotHandedOver(s))

\* one submit was accepted and fills the channel, the next one failed with
\* QueueFull and left no slot, in a pool not shut down
C24_Witness ==
    /\ ~pool_shutdown
    /\ Len(task_channel) = config.max_queue_depth
    /\ \E s, r \in Submits :
        /\ submits[s].ret = "Ok"
        /\ submits[r].pc = "returned" /\ submits[r].ret = "QueueFull"
        /\ mailbox_key_to_string(submits[r].key) \notin DOMAIN entries
        /\ counters.submitted = 1

\* the keys whose result a retrieve or retrieve_async call has returned
Retrieved == {key \in ReturnedKeys : OkCalls(key) # {}}

\* C25: when a call has returned a task's result the task is counted in
\* completed, so completed is at least the number of tasks retrieved, and
\* equal to it once the results of all the submitted tasks were retrieved
C25_StatsAfterRetrieval ==
    /\ Cardinality(Retrieved) <= counters.completed
    /\ (\A s \in Submits : submits[s].ret = "Ok" /\ submits[s].key \in Retrieved)
            => counters.completed = MaxSubmits

\* C26: a shutdown() that has set the flag returns, also when the executor
\* of a worker never returns; and a worker waiting on an empty channel
\* whose sender was dropped exits
C26_ShutdownTerminates ==
    /\ (closer.pc = "close") ~> (closer.pc = "returned")
    /\ \A w \in WorkerIds :
            (w <= config.worker_count /\ workers[w].pc = "recv"
                /\ task_channel = <<>> /\ ~task_tx)
                ~> (workers[w].pc = "exited")

\* C27: of two tasks of equal priority that were in the queue together, the
\* one whose enqueue came first (tasks are numbered in the order of their
\* enqueue calls) is dequeued first, whatever their created_at_ms
C27_FifoByLockAcquisition ==
    \A i, j \in 1..Len(qlog) :
        (i < j /\ meta[qlog[i]].priority = meta[qlog[j]].priority)
            => qlog[i] < qlog[j]

\* the tasks submitted before t that are parked, of the priority of t or a
\* higher one, and fit in the free capacity
WaitingAhead(t) ==
    {u \in Parked :
        /\ u < t
        /\ priority_value(meta[u].priority) >= priority_value(meta[t].priority)
        /\ Fits(active_units, Cost(u))}

\* C28: when the fast path of submit reserves capacity for a new task and
\* starts it, no task submitted earlier, of equal or higher priority, that
\* fits in the free capacity is parked in the queue
C28_NoBarging ==
    [][\A t \in Tasks :
        (pc[t] = "s_cas" /\ pc'[t] = "exec") => WaitingAhead(t) = {}]_vars

\* what a wake_next pass run by t does in one step, but for the putting
\* back; in its CAS loop the pass judges by the value of active_units it
\* read last
PassSteps(t) ==
    /\ (pc[t] \in {"w_start", "w_deq"} /\ pc'[t] = "w_check") =>
            held'[t] \in HeapTop(queue)
    /\ (pc[t] \in {"w_start", "w_deq"} /\ pc'[t] = "done") => queue = {}
    /\ (pc[t] = "w_check" /\ pc'[t] = "w_cas") => Fits(active_units, Cost(held[t]))
    /\ (pc[t] = "w_check" /\ pc'[t] = "w_reenq") => ~Fits(active_units, Cost(held[t]))
    /\ (pc[t] = "w_cas" /\ pc'[t] = "w_deq") =>
            /\ pc'[held[t]] = "exec"
            /\ active_units' = active_units + Cost(held[t])
            /\ active_units' <= limits.max_units
    /\ (pc[t] = "w_cas" /\ pc'[t] = "w_reenq") => ~Fits(cur[t], Cost(held[t]))

\* the pass run by t ends by putting the task it holds back, its metadata
\* as before
PutBack(t) ==
    (pc[t] = "w_reenq" /\ pc'[t] # "w_reenq") =>
        /\ pc'[t] = "done"
        /\ held[t] \in queue'
        /\ meta'[held[t]] = meta[held[t]]

\* C29: a wake_next pass dequeues a highest-ranked parked task, starts it
\* when it fits in max_units - active_units and goes on to the next, and at
\* the first task that does not fit puts that task back in the queue with
\* its rank unchanged and stops
C29_ChainWakeHeadOfLineStop ==
    [][\A t \in Tasks : PassSteps(t) /\ PutBack(t)]_vars

\* the positions of a completion handler and of the wake pass it spawns
Completing == {"f_notify", "f_deliver", "f_audit", "f_spawn"}
InPass == {"w_start", "w_deq", "w_check", "w_cas", "w_reenq"}

\* the task's message is in the mailbox, if the task has a key
MessageDelivered(t) == MailboxChoice(t) # NoKey => Cardinality(MessagesOf(t)) = 1

\* the audit sink holds the task's `complete` event
CompleteRecorded(t) == <<t, "complete">> \in audit

\* C30: a completion handler has subtracted the task's cost before anything
\* else; capacity_available is set before the message is delivered, the
\* message is delivered before `complete` is recorded, and `complete` is
\* recorded before the wake pass exists; and when the pass reads active_units
\* the value is the sum of the costs of the tasks still holding capacity, the
\* completed task not among them
C30_CompletionOrder ==
    /\ [](\A t \in Tasks :
            /\ pc[t] \in Completing \cup InPass =>
                    nReleased[t] = 1 /\ t \notin Running
            /\ pc[t] = "f_notify" => MessagesOf(t) = {} /\ ~CompleteRecorded(t)
            /\ pc[t] = "f_deliver" =>
                    capacity_available /\ MessagesOf(t) = {} /\ ~CompleteRecorded(t)
            /\ pc[t] = "f_audit" =>
                    capacity_available /\ MessageDelivered(t) /\ ~CompleteRecorded(t)
            /\ pc[t] \in {"f_spawn"} \cup InPass =>
                    capacity_available /\ MessageDelivered(t) /\ CompleteRecorded(t))
    /\ [][\A t \in Tasks :
            (pc[t] = "w_check" /\ pc'[t] # "w_check") =>
                /\ active_units = SumCost(Running)
                /\ pc'[t] = "w_cas" <=> Fits(SumCost(Running), Cost(held[t]))]_vars

\* the pass spawned by the completion of a task with a key, whose message
\* and `complete` event are there, has read that no unit is in use and is
\* about to reserve the whole capacity for the task it dequeued
C30_Witness ==
    \E t \in Tasks :
        /\ pc[t] = "w_cas" /\ held[t] # None
        /\ MailboxChoice(t) # NoKey /\ Cardinality(MessagesOf(t)) = 1
        /\ CompleteRecorded(t) /\ capacity_available
        /\ nReleased[t] = 1
        /\ cur[t] = 0 /\ Cost(held[t]) = limits.max_units

\* no submit is between try_send and its fetch_add, no worker between recv
\* and its fetch_sub
CountersSettled ==
    /\ \A s \in Submits : submits[s].pc # "s_count"
    /\ \A w \in WorkerIds : workers[w].pc # "check"

\* C39: the queued counter is never above max_queue_depth, so it never
\* wrapped below 0; and in a pool not shut down, once the submits and
\* workers have done their counting, it is the number of accepted tasks
\* not yet picked up by a worker
C39_QueuedCounter ==
    /\ counters.queued <= config.max_queue_depth
    /\ (CountersSettled /\ ~pool_shutdown) => counters.queued = Len(task_channel)

\* the keys of the tasks accepted by submit and not yet finished executing:
\* the slots still Pending, less those of a submit that has not sent its task
\* yet and those of a worker whose executor has returned
Backlog ==
    {k \in DOMAIN entries :
        /\ arcs[entries[k]] = PendingEntry
        /\ \A s \in Submits :
                submits[s].pc = "s_send" => mailbox_key_to_string(submits[s].key) # k
        /\ \A w \in WorkerIds :
                workers[w].pc = "store" =>
                    mailbox_key_to_string(workers[w].task.mailbox_key) # k}

\* C32: the tasks accepted and not yet finished executing are never more
\* than worker_count + max_queue_depth, of which at most max_queue_depth are
\* in the channel
C32_BacklogBound ==
    /\ Cardinality(Backlog) <= config.worker_count + config.max_queue_depth
    /\ Len(task_channel) <= config.max_queue_depth

\* the backlog is at its bound, every worker executing and the channel
\* full, and a further submit was turned away
C32_Witness ==
    /\ Cardinality(Backlog) = config.worker_count + config.max_queue_depth
    /\ Len(task_channel) = config.max_queue_depth
    /\ \A w \in WorkerIds : w <= config.worker_count => workers[w].pc = "execute"
    /\ \E s \in Submits : submits[s].ret = "QueueFull"

\* C33: with a single worker, the task the worker takes next is of the
\* highest priority among the tasks waiting in the pool
C33_PriorityExecutionOrder ==
    [][\A w \in WorkerIds :
        (config.worker_count = 1 /\ workers[w].pc = "recv" /\ workers'[w].pc = "check")
            => \A i \in 1..Len(task_channel) :
                    priority_value(workers'[w].task.priority)
                        >= priority_value(task_channel[i].priority)]_vars
\* C38: a reservation is granted only when active_units + cost <= max_units
\* in unbounded arithmetic, and a release never takes active_units below 0
C38_CapacityCheckNoWrap ==
    [][\A t \in Tasks :
        /\ nReserved'[t] > nReserved[t] => active_units + Cost(t) <= limits.max_units
        /\ nReleased'[t] > nReleased[t] => active_units - Cost(t) >= 0]_vars

\* the last n elements of a sequence
LastN(seq, n) == SubSeq(seq, Len(seq) - Min(n, Len(seq)) + 1, Len(seq))

\* C35: the sink holds at most max_events events, and they are the latest
\* events recorded, in record order
C35_AuditRingBound ==
    /\ Len(sink.events) <= sink.max_events
    /\ sink.events = LastN(sink.recorded, sink.max_events)

\* the same for the sinks of a bound of at least one event
C35_PositiveBound == sink.max_events >= 1 => C35_AuditRingBound

\* the tasks in the YaqueQueue
YaqueTasks == {yaque.tasks[i] : i \in 1..Len(yaque.tasks)}

\* C36: while no file operation has failed, a dequeue on a YaqueQueue that
\* holds the same tasks as an InMemoryQueue returns what the InMemoryQueue
\* returns (the task of highest priority, the oldest among equals) and leaves
\* the same len()
C36_SameOrderAsInMemory ==
    [][(yaque'.op = "dequeue" /\ ~yaque'.failed /\ YaqueTasks = queue)
         => /\ yaque'.res = qres'
            /\ qres' = "Some" => yaque'.got = qlog'[1]
            /\ Len(yaque'.tasks) = QueueLen(queue')]_vars

\* C37: an operation of the YaqueQueue that returns Err(Backend) leaves the
\* tasks of the queue as they were before the call
C37_ErrorLeavesQueueUnchanged ==
    [][yaque'.res = "Backend" => yaque'.tasks = yaque.tasks]_vars

\* C34: retrieve_async returns ResultNotFound only for a key that had no slot
\* when it was called, never for a key whose task is still pending
C34_NotFoundOnlyWithoutSlot ==
    \A c \in WasmCalls :
        wasm.calls[c].ret = Err("ResultNotFound") => ~wasm.calls[c].had_slot

\* the mutexes thread t holds, and whether it waits for one that is held
Held(t) == {m \in Mutexes : lock_owner[m] = t}
BlockedOn(t) ==
    IF LockProgram[lock_pc[t]].op = "lock"
    THEN lock_owner[LockProgram[lock_pc[t]].mutex]
    ELSE NoThread
PoolMutexes == {"queue", "mailbox", "wake_state"}

\* C31: no thread holds two of the queue, mailbox and wake-state mutexes, none
\* is held while the executor runs, and a thread that waits for a mutex waits
\* for a holder that is not itself waiting (so lock waits cannot form a cycle)
C31_LockDiscipline ==
    \A t \in LockThreads :
        /\ Cardinality(Held(t) \cap PoolMutexes) <= 1
        /\ lock_pc[t] = "execute" => Held(t) \cap PoolMutexes = {}
        /\ BlockedOn(t) # NoThread => BlockedOn(t) # t /\ BlockedOn(BlockedOn(t)) = NoThread

\* one thread is inside a queue critical section, another waits for the queue
\* mutex, and a third runs the executor
C31_Witness ==
    \E t, u, v \in LockThreads :
        /\ Held(t) = {"queue"}
        /\ BlockedOn(u) = t
        /\ lock_pc[v] = "execute"

====
